---- MODULE Spec2Model ----
(***************************************************************************)
(* Local credential vault (backend/api/app): the session registry, the     *)
(* request gate, the vault lifecycle with its unlock throttle, the entry   *)
(* service, settings, and the audit writer, as a state machine over the    *)
(* record store and the in-memory session registry.                        *)
(*                                                                         *)
(* Time is the integer number of seconds since start-up.  Optional column  *)
(* values use NULL; the three singleton tables (vault_metadata, settings,  *)
(* unlock_throttle) are sequences holding no row or one row.               *)
(***************************************************************************)
EXTENDS Integers, Sequences, FiniteSets, TLC

\* ------------------------------------------------------------- bounds
\* The clock stops advancing at MaxTime.
MaxTime == 1000
\* Number of sessions create_session may hand out in one behaviour.
MaxSessions == 2
\* Number of uuid4() allocations of create_entry in one behaviour.
MaxCreates == 1
\* Number of nonces encrypt_json draws from os.urandom in one behaviour.
MaxDraws == 3
\* Bit positions of a ciphertext (body and tag) that may be inverted.
MaxBit == 2
\* Number of worker threads that serve requests at the same time.
MaxThreads == 2
\* Value of failed_attempts up to which concurrent unlock attempts begin.
MaxFailures == 2

\* ------------------------------------------------- program constants
\* config.py: app_session_idle_minutes default.
app_session_idle_minutes == 15
\* sessions.py: SessionStore(idle_timeout_seconds = idle minutes * 60).
idle_timeout == app_session_idle_minutes * 60
\* crypto.py
AES_GCM_NONCE_BYTES == 12
AES_GCM_AAD == "local-vault-entry-v1"
KEY_BYTES == 32
ARGON2_SALT_BYTES == 16
DEFAULT_ARGON2_PARAMS == [memory_cost |-> 65536, time_cost |-> 3, parallelism |-> 4]
\* vault.py: delay_seconds = min(300, 2 ** min(failed_attempts, 8))
DELAY_CAP_SECONDS == 300
DELAY_MAX_EXPONENT == 8

\* A nullable datetime column / optional value that is absent.
NULL == 0 - 1

Min(a, b) == IF a <= b THEN a ELSE b
Max(a, b) == IF a >= b THEN a ELSE b

RECURSIVE Pow2(_)
Pow2(n) == IF n = 0 THEN 1 ELSE 2 * Pow2(n - 1)

\* --------------------------------------------------------------- state
VARIABLES
    now,        \* datetime.now(UTC), in seconds
    metadata,   \* vault_metadata table: <<>> or <<row>>
    throttle,   \* unlock_throttle table: <<>> or <<row>>
    settings,   \* settings table: <<>> or <<row>>
    entries,    \* entries table: record key -> row
    audit,      \* audit rows committed by the latest request (the table is
                \* append-only: it is the concatenation of these)
    sessions,   \* SessionStore._sessions: token -> SessionData
    issued,     \* number of session tokens handed out so far
    created,    \* number of entry ids allocated by uuid4() so far
    drawn,      \* number of nonces encrypt_json has drawn from os.urandom
    request,    \* the latest request
    response,   \* the response to it
    call,       \* the arguments of the latest call of a function of crypto.py,
                \* backup.py or audit.py made on its own; under concurrent
                \* requests, what each worker thread in a handler holds
    returned    \* <<>> or <<what that call returned or raised>>

vars == <<now, metadata, throttle, settings, entries, audit, sessions, issued,
          created, drawn, request, response, call, returned>>
store == <<metadata, throttle, settings, entries>>

\* ------------------------------------------------------ crypto.py
\* hash_password_verifier: the encoded Argon2id hash of the password.
hash_password_verifier(password) == "$argon2id$" \o password

\* verify_password: PasswordHasher().verify(verifier, password); a mismatch
\* or an unparsable verifier is False.
verify_password(password, verifier_hash) ==
    verifier_hash = hash_password_verifier(password)

\* argon2.low_level.hash_secret_raw refuses parameters the Argon2 library
\* does not accept (here: fewer than 8 KiB of memory per lane) with
\* HashingError, which is no ValueError.
ARGON2_SYNC_BLOCKS == 8
Argon2Accepts(params) ==
    /\ params.time_cost >= 1 /\ params.parallelism >= 1
    /\ params.memory_cost >= ARGON2_SYNC_BLOCKS * params.parallelism

\* derive_master_key_raw: Argon2id(password, salt, params), 32 bytes;
\* ValueError for a password outside 12..128 characters or a salt shorter
\* than 16 bytes, HashingError from hash_secret_raw.
derive_master_key_raw(password, salt, params) ==
    IF ~(12 <= Len(password) /\ Len(password) <= 128)
    THEN [ok |-> FALSE, error |-> "ValueError"]
    ELSE IF salt.len < ARGON2_SALT_BYTES
    THEN [ok |-> FALSE, error |-> "ValueError"]
    ELSE IF ~Argon2Accepts(params)
    THEN [ok |-> FALSE, error |-> "HashingError"]
    ELSE [ok |-> TRUE,
          key |-> [bytes |-> KEY_BYTES, kdf |-> "argon2id",
                   password |-> password, salt |-> salt, params |-> params]]

\* _derive_key: HKDF-SHA256(master_key, info = context), 32 bytes.
_derive_key(master_key, context) ==
    [bytes |-> KEY_BYTES, hkdf |-> context, ikm |-> master_key]

derive_enc_key(master_key) == _derive_key(master_key, "vault/enc_key/v1")
derive_backup_key(master_key) == _derive_key(master_key, "vault/backup_key/v1")

\* os.urandom(n): n bytes, the v-th of the values it may return.
urandom(n, v) == [len |-> n, val |-> v]
\* A generator that hands every encryption the same nonce.
fresh_nonce_fixed(i) == urandom(AES_GCM_NONCE_BYTES, 1)

\* The nonce of the i-th call of encrypt_json from the current state on:
\* os.urandom(12) is taken never to return a value twice.
fresh_nonce(i) == urandom(AES_GCM_NONCE_BYTES, drawn + i)

\* A salt generator that returns nothing to store.
generate_argon2_salt_none(v) == [len |-> NULL, val |-> NULL]

\* generate_argon2_salt(DEFAULT_ARGON2_PARAMS.salt_len)
generate_argon2_salt(v) == urandom(ARGON2_SALT_BYTES, v)
\* A salt column that is NULL.
NoSalt == [len |-> NULL, val |-> NULL]

\* _canonical_json: the UTF-8 bytes of the JSON document of obj.
_canonical_json(obj) == [utf8 |-> TRUE, json |-> TRUE, value |-> obj]

\* AESGCM(key).encrypt(nonce, plaintext, aad): a ciphertext with its tag.
\* delta is the set of bit positions in which the bytes differ from what
\* encrypt returned: empty for the output itself.
AESGCM_encrypt(key, nonce, plaintext, aad) ==
    [key |-> key, nonce |-> nonce, aad |-> aad, plaintext |-> plaintext, delta |-> {}]

\* The bytes of a ciphertext with bit i (of the body or of the tag) inverted.
flip_bit(ciphertext, i) ==
    [ciphertext EXCEPT !.delta = (@ \ {i}) \cup ({i} \ @)]

\* A decryption that compares key, nonce and associated data but accepts
\* bytes that differ from what encrypt returned.
AESGCM_decrypt_any_bytes(key, nonce, ciphertext, aad) ==
    IF ciphertext.key = key /\ ciphertext.nonce = nonce /\ ciphertext.aad = aad
    THEN [ok |-> TRUE, plaintext |-> ciphertext.plaintext]
    ELSE [ok |-> FALSE]

\* AESGCM(key).decrypt(nonce, ciphertext, aad): the plaintext when the tag
\* verifies, which it does only for the bytes encrypt returned under the
\* same key, nonce and associated data; InvalidTag (ok = FALSE) otherwise.
AESGCM_decrypt(key, nonce, ciphertext, aad) ==
    IF /\ ciphertext.key = key /\ ciphertext.nonce = nonce /\ ciphertext.aad = aad
       /\ ciphertext.delta = {}
    THEN [ok |-> TRUE, plaintext |-> ciphertext.plaintext]
    ELSE [ok |-> FALSE]

\* encrypt_json, the nonce being what os.urandom returned.
encrypt_json(enc_key, obj, nonce) ==
    IF enc_key.bytes # KEY_BYTES
    THEN [ok |-> FALSE, error |-> "ValueError"]
    ELSE [ok |-> TRUE,
          nonce |-> nonce,
          ciphertext |-> AESGCM_encrypt(enc_key, nonce, _canonical_json(obj), AES_GCM_AAD)]

\* decrypt_json: ValueError for a key or nonce of the wrong length,
\* CryptoIntegrityError for a failed tag check or a plaintext that is not
\* JSON; plaintext.decode("utf-8") raises UnicodeDecodeError.
decrypt_json(enc_key, nonce, ciphertext) ==
    IF enc_key.bytes # KEY_BYTES THEN [ok |-> FALSE, error |-> "ValueError"]
    ELSE IF nonce.len # AES_GCM_NONCE_BYTES THEN [ok |-> FALSE, error |-> "ValueError"]
    ELSE LET opened == AESGCM_decrypt(enc_key, nonce, ciphertext, AES_GCM_AAD)
         IN IF ~opened.ok THEN [ok |-> FALSE, error |-> "CryptoIntegrityError"]
            ELSE IF ~opened.plaintext.utf8
            THEN [ok |-> FALSE, error |-> "UnicodeDecodeError"]
            ELSE IF ~opened.plaintext.json
            THEN [ok |-> FALSE, error |-> "CryptoIntegrityError"]
            ELSE [ok |-> TRUE, value |-> opened.plaintext.value]

\* ---------------------------------------------------- sessions.py
\* secrets.token_urlsafe(32): the n-th token drawn; tokens never repeat.
TokenName == <<"t1", "t2", "t3", "t4", "t5", "t6">>
CsrfName == <<"c1", "c2", "c3", "c4", "c5", "c6">>
token_urlsafe(n) == TokenName[n]
csrf_urlsafe(n) == CsrfName[n]

NoSession == <<>>

\* A registry that a new process finds as the previous one left it.
SessionStore_restored(idle_timeout_seconds) == sessions
\* SessionStore.__init__: _sessions = {}.  The module creates the registry
\* when the process imports it; nothing writes it to the database file.
SessionStore(idle_timeout_seconds) == <<>>

\* A registry whose tokens collide: every session gets the first token.
create_session_colliding(reg, enc_key, n, t) ==
    LET session == [token |-> token_urlsafe(1),
                    csrf_token |-> csrf_urlsafe(1),
                    enc_key |-> enc_key,
                    created_at |-> t,
                    last_seen |-> t]
    IN [session |-> <<session>>,
        sessions |-> [k \in DOMAIN reg \cup {session.token} |->
                         IF k = session.token THEN session ELSE reg[k]]]

\* A registry that holds the newest session alone.
create_session_exclusive(reg, enc_key, n, t) ==
    LET session == [token |-> token_urlsafe(n),
                    csrf_token |-> csrf_urlsafe(n),
                    enc_key |-> enc_key,
                    created_at |-> t,
                    last_seen |-> t]
    IN [session |-> <<session>>,
        sessions |-> [k \in {session.token} |-> session]]

\* SessionStore.create_session (the caller passes a 32-byte key).
create_session(reg, enc_key, n, t) ==
    LET session == [token |-> token_urlsafe(n),
                    csrf_token |-> csrf_urlsafe(n),
                    enc_key |-> enc_key,
                    created_at |-> t,
                    last_seen |-> t]
    IN [session |-> <<session>>,
        sessions |-> [k \in DOMAIN reg \cup {session.token} |->
                         IF k = session.token THEN session ELSE reg[k]]]

\* dict.pop(token, None)
pop(reg, token) == [k \in DOMAIN reg \ {token} |-> reg[k]]

\* A get that evicts on idle but leaves last_seen as it was.
get_session_no_touch(reg, token, t) ==
    IF token = "" THEN [session |-> NoSession, sessions |-> reg]
    ELSE IF token \notin DOMAIN reg THEN [session |-> NoSession, sessions |-> reg]
    ELSE IF t - reg[token].last_seen > idle_timeout
         THEN [session |-> NoSession, sessions |-> pop(reg, token)]
    ELSE [session |-> <<reg[token]>>, sessions |-> reg]

\* SessionStore.get_session: evicts on idle, else bumps last_seen.
get_session(reg, token, t) ==
    IF token = "" THEN [session |-> NoSession, sessions |-> reg]
    ELSE IF token \notin DOMAIN reg THEN [session |-> NoSession, sessions |-> reg]
    ELSE IF t - reg[token].last_seen > idle_timeout
         THEN [session |-> NoSession, sessions |-> pop(reg, token)]
    ELSE LET touched == [reg[token] EXCEPT !.last_seen = t]
         IN [session |-> <<touched>>,
             sessions |-> [reg EXCEPT ![token] = touched]]

\* A peek that never evicts.
peek_session_no_eviction(reg, token, t) ==
    IF token = "" THEN [session |-> NoSession, sessions |-> reg]
    ELSE IF token \notin DOMAIN reg THEN [session |-> NoSession, sessions |-> reg]
    ELSE [session |-> <<reg[token]>>, sessions |-> reg]

\* A peek that touches the session as get does.
peek_session_bumps(reg, token, t) == get_session(reg, token, t)

\* SessionStore.peek_session: same eviction, no bump.
peek_session(reg, token, t) ==
    IF token = "" THEN [session |-> NoSession, sessions |-> reg]
    ELSE IF token \notin DOMAIN reg THEN [session |-> NoSession, sessions |-> reg]
    ELSE IF t - reg[token].last_seen > idle_timeout
         THEN [session |-> NoSession, sessions |-> pop(reg, token)]
    ELSE [session |-> <<reg[token]>>, sessions |-> reg]

\* A destroy that leaves the registry as it is.
destroy_session_noop(reg, token) == reg

\* SessionStore.destroy_session
destroy_session(reg, token) == IF token = "" THEN reg ELSE pop(reg, token)

\* -------------------------------------------------- middleware.py
STATE_CHANGING_METHODS == {"POST", "PUT", "DELETE", "PATCH"}
CSRF_EXEMPT_PATHS == {"/vault/setup", "/vault/unlock", "/health",
                      "/openapi.json", "/docs", "/docs/oauth2-redirect", "/redoc"}

\* A request as the gate sees it; an absent cookie or header is "".  The
\* validated payload, when the route takes one, is added as body.
Request(method, path, session_token, csrf_cookie, csrf_header) ==
    [method |-> method, path |-> path, session_token |-> session_token,
     csrf_cookie |-> csrf_cookie, csrf_header |-> csrf_header, body |-> <<>>]
WithBody(req, payload) == [req EXCEPT !.body = payload]

\* A response: handled says whether the gate passed the request on to the
\* application (the router and the route handler), verified whether
\* the password verifier was consulted, set_cookie what Set-Cookie carries
\* (<<>>: none; <<token, csrf>>: set; <<"", "">>: cleared).
\* headers holds the security headers the client receives with it.
\* SecurityHeadersMiddleware: the four headers added to a response start.
SECURITY_HEADERS ==
    {<<"x-content-type-options", "nosniff">>,
     <<"referrer-policy", "no-referrer">>,
     <<"cache-control", "no-store">>,
     <<"permissions-policy", "geolocation=(), microphone=(), camera=()">>}

\* app.add_middleware puts each middleware in front of those added before
\* it: the one added last is the outermost.  Outermost first:
user_middleware == <<"CSRFMiddleware", "SecurityHeadersMiddleware", "CORSMiddleware">>
\* The application's stack: the handler registered for Exception runs in the
\* server-error layer around the middleware, the other exception handlers in
\* the exception layer next to the router.
middleware_stack ==
    <<"ServerErrorMiddleware">> \o user_middleware \o <<"ExceptionMiddleware", "router">>
Depth(layer) == CHOOSE i \in DOMAIN middleware_stack : middleware_stack[i] = layer
\* The security headers on a response that a layer of the stack sends: a
\* response passes through send_with_headers when the layer lies inside
\* SecurityHeadersMiddleware.
send_with_headers(layer) ==
    IF Depth("SecurityHeadersMiddleware") < Depth(layer) THEN SECURITY_HEADERS ELSE {}

Response(status, code, handled) ==
    [status |-> status, code |-> code, handled |-> handled,
     verified |-> FALSE, set_cookie |-> <<>>, body |-> <<>>,
     headers |-> send_with_headers("router")]

\* build_error_response as the gate uses it: sent by CSRFMiddleware itself.
GateError(status, code) ==
    [Response(status, code, FALSE) EXCEPT !.headers = send_with_headers("CSRFMiddleware")]

\* errors.py: an AppError becomes its own status and code; any other
\* exception is answered 500 INTERNAL_ERROR by the handler for Exception.
app_error_handler(status, code) == Response(status, code, TRUE)
unhandled_exception_handler ==
    [Response(500, "INTERNAL_ERROR", TRUE) EXCEPT
        !.headers = send_with_headers("ServerErrorMiddleware")]
\* What a route answers when decryption raised: code names the AppError, or
\* is INTERNAL_ERROR when the exception was not turned into one.
Raised(code) ==
    IF code = "INTERNAL_ERROR" THEN unhandled_exception_handler
    ELSE app_error_handler(500, code)

\* The gate without the server-side anchor: plain double submit.
CSRFMiddleware_unanchored(req, reg, t) ==
    IF req.method = "OPTIONS" \/ req.method \notin STATE_CHANGING_METHODS
       \/ req.path \in CSRF_EXEMPT_PATHS
    THEN [pass |-> TRUE, sessions |-> reg, response |-> <<>>]
    ELSE IF req.session_token = ""
    THEN [pass |-> FALSE, sessions |-> reg,
          response |-> <<GateError(401, "UNAUTHORIZED")>>]
    ELSE LET got == get_session(reg, req.session_token, t)
         IN IF got.session = NoSession
            THEN [pass |-> FALSE, sessions |-> got.sessions,
                  response |-> <<GateError(401, "UNAUTHORIZED")>>]
            ELSE IF req.csrf_cookie = "" \/ req.csrf_header = ""
                    \/ req.csrf_cookie # req.csrf_header
            THEN [pass |-> FALSE, sessions |-> got.sessions,
                  response |-> <<GateError(403, "CSRF_INVALID")>>]
            ELSE [pass |-> TRUE, sessions |-> got.sessions, response |-> <<>>]

\* The gate with /vault/lock among the exempt paths.
CSRFMiddleware_lock_exempt(req, reg, t) ==
    IF req.method = "OPTIONS" \/ req.method \notin STATE_CHANGING_METHODS
       \/ req.path \in CSRF_EXEMPT_PATHS \cup {"/vault/lock"}
    THEN [pass |-> TRUE, sessions |-> reg, response |-> <<>>]
    ELSE IF req.session_token = ""
    THEN [pass |-> FALSE, sessions |-> reg,
          response |-> <<GateError(401, "UNAUTHORIZED")>>]
    ELSE LET got == get_session(reg, req.session_token, t)
         IN IF got.session = NoSession
            THEN [pass |-> FALSE, sessions |-> got.sessions,
                  response |-> <<GateError(401, "UNAUTHORIZED")>>]
            ELSE IF req.csrf_cookie = "" \/ req.csrf_header = ""
                    \/ req.csrf_cookie # req.csrf_header
                    \/ got.session[1].csrf_token # req.csrf_header
            THEN [pass |-> FALSE, sessions |-> got.sessions,
                  response |-> <<GateError(403, "CSRF_INVALID")>>]
            ELSE [pass |-> TRUE, sessions |-> got.sessions, response |-> <<>>]

\* CSRFMiddleware.__call__: [pass, response, sessions].
CSRFMiddleware(req, reg, t) ==
    IF req.method = "OPTIONS" \/ req.method \notin STATE_CHANGING_METHODS
       \/ req.path \in CSRF_EXEMPT_PATHS
    THEN [pass |-> TRUE, sessions |-> reg, response |-> <<>>]
    ELSE IF req.session_token = ""
    THEN [pass |-> FALSE, sessions |-> reg,
          response |-> <<GateError(401, "UNAUTHORIZED")>>]
    ELSE LET got == get_session(reg, req.session_token, t)
         IN IF got.session = NoSession
            THEN [pass |-> FALSE, sessions |-> got.sessions,
                  response |-> <<GateError(401, "UNAUTHORIZED")>>]
            ELSE IF req.csrf_cookie = "" \/ req.csrf_header = ""
            THEN [pass |-> FALSE, sessions |-> got.sessions,
                  response |-> <<GateError(403, "CSRF_INVALID")>>]
            ELSE IF req.csrf_cookie # req.csrf_header
                    \/ got.session[1].csrf_token # req.csrf_header
            THEN [pass |-> FALSE, sessions |-> got.sessions,
                  response |-> <<GateError(403, "CSRF_INVALID")>>]
            ELSE [pass |-> TRUE, sessions |-> got.sessions, response |-> <<>>]

\* -------------------------------------------------------- audit.py
\* Meta keys are spelled out character by character so that the sanitizer's
\* lower() and substring tests are computed, not assumed.
KeyChars ==
    [reason |-> <<"r", "e", "a", "s", "o", "n">>,
     retry_after_seconds |-> <<"r", "e", "t", "r", "y", "_", "a", "f", "t", "e", "r", "_", "s", "e", "c", "o", "n", "d", "s">>,
     failed_attempts |-> <<"f", "a", "i", "l", "e", "d", "_", "a", "t", "t", "e", "m", "p", "t", "s">>,
     delay_seconds |-> <<"d", "e", "l", "a", "y", "_", "s", "e", "c", "o", "n", "d", "s">>,
     hint_set |-> <<"h", "i", "n", "t", "_", "s", "e", "t">>,
     entry_id |-> <<"e", "n", "t", "r", "y", "_", "i", "d">>,
     count |-> <<"c", "o", "u", "n", "t">>,
     entry_count |-> <<"e", "n", "t", "r", "y", "_", "c", "o", "u", "n", "t">>,
     password_protected |-> <<"p", "a", "s", "s", "w", "o", "r", "d", "_", "p", "r", "o", "t", "e", "c", "t", "e", "d">>,
     added |-> <<"a", "d", "d", "e", "d">>,
     updated |-> <<"u", "p", "d", "a", "t", "e", "d">>,
     skipped |-> <<"s", "k", "i", "p", "p", "e", "d">>,
     errors |-> <<"e", "r", "r", "o", "r", "s">>]

FORBIDDEN_META_HINTS ==
    {<<"p", "a", "s", "s", "w", "o", "r", "d">>,
     <<"s", "e", "c", "r", "e", "t">>,
     <<"t", "o", "k", "e", "n">>,
     <<"k", "e", "y">>,
     <<"m", "a", "s", "t", "e", "r">>}

UpperToLower ==
    [A |-> "a", B |-> "b", C |-> "c", D |-> "d", E |-> "e", F |-> "f", G |-> "g", H |-> "h", I |-> "i", J |-> "j", K |-> "k", L |-> "l", M |-> "m", N |-> "n", O |-> "o", P |-> "p", Q |-> "q", R |-> "r", S |-> "s", T |-> "t", U |-> "u", V |-> "v", W |-> "w", X |-> "x", Y |-> "y", Z |-> "z"]

\* str.lower() on one character and on a key.
LowerChar(c) == IF c \in DOMAIN UpperToLower THEN UpperToLower[c] ELSE c
Lower(key) == [i \in 1..Len(key) |-> LowerChar(key[i])]

\* hint in lowered
Contains(text, hint) ==
    \E i \in 1..(Len(text) - Len(hint) + 1) :
        SubSeq(text, i, i + Len(hint) - 1) = hint

HasForbiddenHint(key) ==
    \E hint \in FORBIDDEN_META_HINTS : Contains(Lower(key), hint)

\* One item of a meta dict: kind is the Python type of the value.
KV(key, kind, val) == [key |-> key, kind |-> kind, val |-> val]

\* A dict is a sequence of items in insertion order; an optional dict is
\* <<>> (None) or <<dict>>.
\* A sanitizer that keeps every key.
_sanitize_meta_any_key(meta) ==
    IF meta = <<>> \/ meta[1] = <<>> THEN <<>>
    ELSE LET sanitized == SelectSeq(meta[1], LAMBDA item :
                             item.kind \in {"bool", "str", "int", "float"})
         IN IF sanitized = <<>> THEN <<>> ELSE <<sanitized>>

\* audit._sanitize_meta.  isinstance(value, bool | str | int | float): a
\* value that is None is not kept by the writer.
WRITER_SCALARS == {"bool", "str", "int", "float"}
_sanitize_meta(meta) ==
    IF meta = <<>> \/ meta[1] = <<>> THEN <<>>
    ELSE LET sanitized == SelectSeq(meta[1], LAMBDA item :
                             ~HasForbiddenHint(item.key) /\ item.kind \in WRITER_SCALARS)
         IN IF sanitized = <<>> THEN <<>> ELSE <<sanitized>>

\* write_audit_event: the AuditRecord added to the transaction (id and ts
\* are a fresh uuid4 and the clock).  The routes pass a dict literal or
\* nothing: meta is the items of the literal, <<>> when there is none.
write_audit_event(event_type, outcome, meta) ==
    [type |-> event_type, outcome |-> outcome,
     meta |-> _sanitize_meta(IF meta = <<>> THEN <<>> ELSE <<meta>>)]

\* -------------------------------------------------- request inputs
\* Master passwords a client may type (both pass the 12..128 length check
\* of VaultSetupRequest / VaultUnlockRequest).
Passwords == {"CorrectHorseBatteryStaple!", "wrong-password-1"}
\* Setup requests with the salt generate_argon2_salt draws for each ("" is
\* an absent hint): two requests that differ in every field.
SetupInputs ==
    {[masterPassword |-> "CorrectHorseBatteryStaple!", hint |-> "memorable words",
      salt |-> generate_argon2_salt(1)],
     [masterPassword |-> "wrong-password-1", hint |-> "",
      salt |-> generate_argon2_salt(2)]}

\* Cookie and header values a client may present: nothing, a forged value,
\* or any value handed out so far (live, locked or expired).
SessionCookies == {"", "forged"} \cup {token_urlsafe(i) : i \in 1..issued}
CsrfValues == {"", "forged"} \cup {csrf_urlsafe(i) : i \in 1..issued}

\* Every combination of cookie and header on a path.
AnyRequest(method, path) ==
    {Request(method, path, st, cc, ch) :
        st \in SessionCookies, cc \in CsrfValues, ch \in CsrfValues}

\* What a browser holding a cookie jar sends: both cookies of one unlock (or
\* none, or a forged session cookie), and the header either echoing the CSRF
\* cookie or missing.
BrowserRequest(method, path) ==
    {Request(method, path, "", "", ""), Request(method, path, "forged", "forged", "forged")}
    \cup UNION {{Request(method, path, token_urlsafe(i), csrf_urlsafe(i), ch) :
                    ch \in {"", csrf_urlsafe(i)}} : i \in 1..issued}

\* ----------------------------------------------------- routes/vault.py
\* _get_or_create_unlock_throttle / _get_or_create_settings
_get_or_create_unlock_throttle(table) ==
    IF table = <<>> THEN <<[failed_attempts |-> 0, next_allowed_at |-> NULL]>>
    ELSE table

_get_or_create_settings(table) ==
    IF table = <<>>
    THEN <<[auto_lock_minutes |-> 5, clipboard_clear_seconds |-> 15,
            require_reauth_for_copy |-> TRUE]>>
    ELSE table

\* metadata is None or not metadata.pw_verifier
\* A setup that never looks for an existing verifier.
NoVerifier_unchecked == TRUE

NoVerifier == metadata = <<>> \/ metadata[1].pw_verifier = ""

\* The ladder without the cap on the exponent.
delay_seconds_uncapped(failed_attempts) ==
    Min(DELAY_CAP_SECONDS, Pow2(failed_attempts))

\* delay_seconds = min(300, 2 ** min(throttle.failed_attempts, 8))
delay_seconds(failed_attempts) ==
    Min(DELAY_CAP_SECONDS, Pow2(Min(failed_attempts, DELAY_MAX_EXPONENT)))

\* The back-off test off by one second.
is_throttled_early(row, t) ==
    row.next_allowed_at # NULL /\ t + 1 < row.next_allowed_at

\* throttle.next_allowed_at and now < throttle.next_allowed_at
is_throttled(row, t) ==
    row.next_allowed_at # NULL /\ t < row.next_allowed_at

\* The failed branch: failed_attempts += 1; next_allowed_at = now + delay.
throttle_failed(row, t) ==
    [failed_attempts |-> row.failed_attempts + 1,
     next_allowed_at |-> t + delay_seconds(row.failed_attempts + 1)]

\* A reset that forgets to clear the deadline.
throttle_reset_keeps_deadline(row) ==
    [failed_attempts |-> 0, next_allowed_at |-> row.next_allowed_at]

\* The successful branch: failed_attempts = 0; next_allowed_at = None.
throttle_reset(row) ==
    [failed_attempts |-> 0, next_allowed_at |-> NULL]

\* A request the gate turned away: only the registry may have changed.
Rejected(req, g) ==
    /\ request' = req
    /\ response' = g.response[1]
    /\ sessions' = g.sessions
    /\ audit' = <<>>
    /\ UNCHANGED <<now, call, returned, store, issued, created, drawn>>

\* GET /vault/status
vault_status(req) ==
    /\ req.method = "GET" /\ req.path = "/vault/status"
    /\ request' = req
    /\ audit' = <<>>
    /\ UNCHANGED <<now, call, returned, store, issued, created, drawn>>
    /\ IF NoVerifier
       THEN /\ response' = [Response(200, "", TRUE) EXCEPT !.body = "NO_VAULT"]
            /\ UNCHANGED sessions
       ELSE LET current == peek_session(sessions, req.session_token, now)
            IN /\ sessions' = current.sessions
               /\ response' = [Response(200, "", TRUE) EXCEPT
                                 !.body = IF current.session = NoSession
                                          THEN "LOCKED" ELSE "UNLOCKED"]

\* POST /vault/setup (exempt from the gate)
vault_setup(masterPassword, hint, salt) ==
    /\ request' = WithBody(Request("POST", "/vault/setup", "", "", ""),
                            [masterPassword |-> masterPassword, hint |-> hint])
    /\ UNCHANGED <<now, call, returned, entries, sessions, issued, created, drawn>>
    /\ IF ~NoVerifier
       THEN /\ audit' = <<write_audit_event("VAULT_SETUP", "FAILURE",
                            <<KV(KeyChars.reason, "str", "already_initialized")>>)>>
            /\ response' = Response(409, "VAULT_EXISTS", TRUE)
            /\ UNCHANGED <<metadata, throttle, settings>>
       ELSE /\ metadata' = <<[schema_version |-> 1,
                              hint |-> hint,
                              argon2_salt |-> salt,
                              argon2_memory_cost |-> DEFAULT_ARGON2_PARAMS.memory_cost,
                              argon2_time_cost |-> DEFAULT_ARGON2_PARAMS.time_cost,
                              argon2_parallelism |-> DEFAULT_ARGON2_PARAMS.parallelism,
                              pw_verifier |-> hash_password_verifier(masterPassword)]>>
            /\ settings' = _get_or_create_settings(settings)
            /\ throttle' = _get_or_create_unlock_throttle(throttle)
            /\ audit' = <<write_audit_event("VAULT_SETUP", "SUCCESS",
                            <<KV(KeyChars.hint_set, "bool", hint # "")>>)>>
            /\ response' = Response(201, "", TRUE)

\* POST /vault/unlock (exempt from the gate)
vault_unlock(masterPassword) ==
    /\ request' = WithBody(Request("POST", "/vault/unlock", "", "", ""),
                            [masterPassword |-> masterPassword])
    /\ UNCHANGED <<now, call, returned, metadata, settings, entries, created, drawn>>
    /\ IF NoVerifier
       THEN /\ audit' = <<write_audit_event("VAULT_UNLOCK", "FAILURE",
                            <<KV(KeyChars.reason, "str", "vault_missing")>>)>>
            /\ response' = Response(400, "VAULT_NOT_INITIALIZED", TRUE)
            /\ UNCHANGED <<throttle, sessions, issued>>
       ELSE IF \/ metadata[1].argon2_salt = NoSalt
               \/ metadata[1].argon2_memory_cost = NULL
               \/ metadata[1].argon2_time_cost = NULL
               \/ metadata[1].argon2_parallelism = NULL
       THEN /\ audit' = <<>>
            /\ response' = Response(500, "VAULT_INVALID", TRUE)
            /\ UNCHANGED <<throttle, sessions, issued>>
       ELSE LET row == _get_or_create_unlock_throttle(throttle)[1]
            IN IF is_throttled(row, now)
               THEN /\ audit' = <<write_audit_event("VAULT_UNLOCK", "FAILURE",
                                    <<KV(KeyChars.reason, "str", "throttled"),
                                      KV(KeyChars.retry_after_seconds, "int",
                                         Max(1, row.next_allowed_at - now))>>)>>
                    /\ throttle' = <<row>>
                    /\ response' = Response(429, "RATE_LIMITED", TRUE)
                    /\ UNCHANGED <<sessions, issued>>
               ELSE IF ~verify_password(masterPassword, metadata[1].pw_verifier)
               THEN LET failed == row.failed_attempts + 1
                    IN /\ throttle' = <<throttle_failed(row, now)>>
                       /\ audit' = <<write_audit_event("VAULT_UNLOCK", "FAILURE",
                                        <<KV(KeyChars.failed_attempts, "int", failed),
                                          KV(KeyChars.delay_seconds, "int",
                                             delay_seconds(failed))>>)>>
                       /\ response' = [Response(401, "UNAUTHORIZED", TRUE)
                                         EXCEPT !.verified = TRUE]
                       /\ UNCHANGED <<sessions, issued>>
               ELSE LET params == [memory_cost |-> metadata[1].argon2_memory_cost,
                                   time_cost |-> metadata[1].argon2_time_cost,
                                   parallelism |-> metadata[1].argon2_parallelism]
                        master_key == derive_master_key_raw(masterPassword,
                                          metadata[1].argon2_salt, params)
                        enc_key == derive_enc_key(master_key.key)
                        made == create_session(sessions, enc_key, issued + 1, now)
                    IN /\ issued < MaxSessions
                       /\ throttle' = <<throttle_reset(row)>>
                       /\ sessions' = made.sessions
                       /\ issued' = issued + 1
                       /\ audit' = <<write_audit_event("VAULT_UNLOCK", "SUCCESS", <<>>)>>
                       /\ response' = [Response(200, "", TRUE) EXCEPT
                                         !.verified = TRUE,
                                         !.set_cookie = <<made.session[1].token,
                                                          made.session[1].csrf_token>>]

\* vault_unlock is a synchronous handler: the server runs each request in a
\* worker thread with a database session of its own, and nothing in the
\* handler keeps two threads apart.  A thread reads the throttle row, tests
\* it and verifies the password; what it writes and commits afterwards is
\* computed from the row as it read it (the UPDATE sets the columns to the
\* values of the loaded object).  Other threads may run between the two.
\* call holds, for each thread that has read and not yet committed, the
\* password it was sent, the row it loaded and its datetime.now(UTC).
vault_unlock_read(thread, masterPassword) ==
    /\ thread \notin DOMAIN call
    /\ ~NoVerifier
    /\ LET row == _get_or_create_unlock_throttle(throttle)[1]
       IN IF is_throttled(row, now)
          THEN vault_unlock(masterPassword)
          ELSE /\ row.failed_attempts < MaxFailures
               /\ call' = (thread :> [masterPassword |-> masterPassword,
                                      throttle |-> row, now |-> now]) @@ call
               /\ UNCHANGED <<now, store, audit, sessions, issued, created, drawn, request,
                              response, returned>>

vault_unlock_write(thread) ==
    /\ thread \in DOMAIN call
    /\ LET mine == call[thread]
           verified == verify_password(mine.masterPassword, metadata[1].pw_verifier)
           params == [memory_cost |-> metadata[1].argon2_memory_cost,
                      time_cost |-> metadata[1].argon2_time_cost,
                      parallelism |-> metadata[1].argon2_parallelism]
           master_key == derive_master_key_raw(mine.masterPassword,
                                               metadata[1].argon2_salt, params)
           made == create_session(sessions, derive_enc_key(master_key.key), issued + 1, now)
       IN /\ request' = WithBody(Request("POST", "/vault/unlock", "", "", ""),
                                  [masterPassword |-> mine.masterPassword])
          /\ call' = [other \in DOMAIN call \ {thread} |-> call[other]]
          /\ UNCHANGED <<now, returned, metadata, settings, entries, created, drawn>>
          /\ IF ~verified
             THEN /\ throttle' = <<throttle_failed(mine.throttle, mine.now)>>
                  /\ audit' = <<write_audit_event("VAULT_UNLOCK", "FAILURE",
                                   <<KV(KeyChars.failed_attempts, "int",
                                        mine.throttle.failed_attempts + 1),
                                     KV(KeyChars.delay_seconds, "int",
                                        delay_seconds(mine.throttle.failed_attempts + 1))>>)>>
                  /\ response' = [Response(401, "UNAUTHORIZED", TRUE)
                                    EXCEPT !.verified = TRUE]
                  /\ UNCHANGED <<sessions, issued>>
             ELSE /\ issued < MaxSessions
                  /\ throttle' = <<throttle_reset(mine.throttle)>>
                  /\ sessions' = made.sessions
                  /\ issued' = issued + 1
                  /\ audit' = <<write_audit_event("VAULT_UNLOCK", "SUCCESS", <<>>)>>
                  /\ response' = [Response(200, "", TRUE) EXCEPT
                                    !.verified = TRUE,
                                    !.set_cookie = <<made.session[1].token,
                                                     made.session[1].csrf_token>>]

\* POST /vault/lock (behind the gate)
vault_lock(req) ==
    /\ req.method = "POST" /\ req.path = "/vault/lock"
    /\ LET g == CSRFMiddleware(req, sessions, now)
       IN IF ~g.pass THEN Rejected(req, g)
          ELSE /\ request' = req
               /\ sessions' = destroy_session(g.sessions, req.session_token)
               /\ audit' = <<write_audit_event("VAULT_LOCK", "SUCCESS", <<>>)>>
               /\ response' = [Response(204, "", TRUE) EXCEPT !.set_cookie = <<"", "">>]
               /\ UNCHANGED <<now, call, returned, store, issued, created, drawn>>

\* ------------------------------------------------ routes/csrf_probe.py
\* POST /_internal/csrf-probe: a handler with no effect behind the gate.  The
\* router answers any other method on this path 405 (errors._safe_http_message).
csrf_probe(req) ==
    /\ req.path = "/_internal/csrf-probe"
    /\ LET g == CSRFMiddleware(req, sessions, now)
       IN IF ~g.pass THEN Rejected(req, g)
          ELSE /\ request' = req
               /\ sessions' = g.sessions
               /\ audit' = <<>>
               /\ response' = IF req.method = "POST"
                              THEN [Response(200, "", TRUE) EXCEPT !.body = "ok"]
                              ELSE Response(405, "METHOD_NOT_ALLOWED", TRUE)
               /\ UNCHANGED <<now, call, returned, store, issued, created, drawn>>

\* -------------------------------------------------------- schemas.py
\* UUID values are numbered; str(uuid) is its canonical text and UUID(text)
\* parses it back (NULL when the text is no UUID).
UuidText == <<"uuid-1", "uuid-2", "uuid-3", "uuid-4", "uuid-5", "uuid-6">>
UUIDs == 1..(MaxCreates + 1)
uuid_str(u) == UuidText[u]
uuid_parse(text) ==
    IF \E u \in UUIDs : UuidText[u] = text
    THEN CHOOSE u \in UUIDs : UuidText[u] = text
    ELSE NULL
\* uuid4(): the n-th identifier allocated; allocations never repeat.
uuid4(n) == n

\* A datetime: its wall-clock reading in seconds and its UTC offset in
\* seconds, NULL for a naive one (no tzinfo).
datetime(wall, offset) == [wall |-> wall, offset |-> offset]
\* datetime.now(UTC) at the instant t.
utc(t) == datetime(t, 0)
\* A reading of naive datetimes as local time at -05:00.
as_local(value) ==
    IF value.offset = NULL THEN datetime(value.wall, 0 - 18000) ELSE value
\* value.replace(tzinfo = UTC) when value.tzinfo is None
as_utc(value) == IF value.offset = NULL THEN datetime(value.wall, 0) ELSE value
\* The instant an aware datetime denotes; aware datetimes compare by it.
timestamp(value) == value.wall - value.offset
\* Python refuses to order a naive datetime against an aware one (TypeError).
Comparable(a, b) == (a.offset = NULL) = (b.offset = NULL)
\* a > b for datetimes of one kind.
Later(a, b) == timestamp(as_utc(a)) > timestamp(as_utc(b))
\* The SQLite DATETIME column keeps year to microsecond of the value bound
\* to it and no offset: what is read back is naive.
sqlite_datetime(value) == datetime(value.wall, NULL)

\* A datetime in a JSON document is its ISO 8601 text, offset included.
isoformat(t) == [iso |-> t]
fromisoformat(d) == d.iso

\* EntryBase: field constraints and validators.  An optional string is <<>>
\* (None) or <<value>>; a url value is the scheme and host urlsplit finds.
\* Strings are taken as already stripped of surrounding whitespace.
validate_url_scheme(url) ==
    IF url = <<>> \/ (url[1].scheme = "" /\ url[1].netloc = "")
    THEN [ok |-> TRUE, url |-> <<>>]
    ELSE IF url[1].scheme \notin {"http", "https"} THEN [ok |-> FALSE]
    ELSE IF url[1].netloc = "" THEN [ok |-> FALSE]
    ELSE [ok |-> TRUE, url |-> url]

EntryBaseValid(p) ==
    /\ 1 <= Len(p.title) /\ Len(p.title) <= 128
    /\ 1 <= Len(p.username) /\ Len(p.username) <= 128
    /\ 1 <= Len(p.password) /\ Len(p.password) <= 256
    /\ p.notes # <<>> => Len(p.notes[1]) <= 2000
    /\ Len(p.tags) <= 10
    /\ \A i \in DOMAIN p.tags : 1 <= Len(p.tags[i]) /\ Len(p.tags[i]) <= 24
    /\ validate_url_scheme(p.url).ok

\* Entry(id = ..., title = payload.title, ..., updatedAt = ...)
Entry(id, payload, updatedAt) ==
    [id |-> id,
     title |-> payload.title,
     url |-> validate_url_scheme(payload.url).url,
     username |-> payload.username,
     password |-> payload.password,
     notes |-> payload.notes,
     tags |-> payload.tags,
     favorite |-> payload.favorite,
     updatedAt |-> updatedAt]

\* entry.model_dump(mode = "json"): the id and the timestamp become text.
Entry_model_dump(entry) ==
    [entry EXCEPT !.id = uuid_str(entry.id),
                  !.updatedAt = isoformat(entry.updatedAt)]

\* Entry.model_validate(payload) on a decoded JSON object.
Entry_model_validate(payload) ==
    IF /\ uuid_parse(payload.id) # NULL
       /\ EntryBaseValid(payload)
    THEN [ok |-> TRUE,
          entry |-> Entry(uuid_parse(payload.id), payload,
                          fromisoformat(payload.updatedAt))]
    ELSE [ok |-> FALSE]

\* Request bodies that pass EntryCreateRequest / EntryUpdateRequest.
EntryPayloads ==
    {[title |-> "github", url |-> <<[scheme |-> "https", netloc |-> "github.com"]>>,
      username |-> "octocat", password |-> "hunter2!", notes |-> <<>>,
      tags |-> <<"dev">>, favorite |-> TRUE],
     [title |-> "gitlab", url |-> <<>>,
      username |-> "tanuki", password |-> "s3cret pass", notes |-> <<"work">>,
      tags |-> <<>>, favorite |-> FALSE]}

\* ---------------------------------------------------- routes/entries.py
\* The entries table with one row put under its key / without a key.
Put(table, key, row) ==
    [k \in DOMAIN table \cup {key} |-> IF k = key THEN row ELSE table[k]]
\* A removal that leaves the table as it was.
Delete_none(table, key) == table
Delete(table, key) == [k \in DOMAIN table \ {key} |-> table[k]]

\* A row that keeps one fixed nonce instead of the one of this encryption.
EntryRecord_stale_nonce(id, encrypted, updated_at) ==
    [id |-> id, nonce |-> urandom(AES_GCM_NONCE_BYTES, 1),
     ciphertext |-> encrypted.ciphertext, updated_at |-> updated_at]

EntryRecord(id, encrypted, updated_at) ==
    [id |-> id, nonce |-> encrypted.nonce, ciphertext |-> encrypted.ciphertext,
     updated_at |-> updated_at]

\* A session check that accepts any registered token, however long idle.
_require_unlocked_session_registered(reg, req, t) ==
    IF req.session_token \in DOMAIN reg
    THEN [session |-> <<reg[req.session_token]>>, sessions |-> reg]
    ELSE [session |-> NoSession, sessions |-> reg]

\* _require_unlocked_session: session_store.get_session(cookie); no session
\* raises 401 UNAUTHORIZED.
_require_unlocked_session(reg, req, t) == get_session(reg, req.session_token, t)

\* _decrypt_entry: a failed integrity check or an invalid Entry is 500
\* ENTRY_UNAVAILABLE; any other exception is left to the generic handler.
_decrypt_entry(row, enc_key) ==
    LET payload == decrypt_json(enc_key, row.nonce, row.ciphertext)
    IN IF ~payload.ok
       THEN [ok |-> FALSE,
             code |-> IF payload.error = "CryptoIntegrityError"
                      THEN "ENTRY_UNAVAILABLE" ELSE "INTERNAL_ERROR"]
       ELSE LET parsed == Entry_model_validate(payload.value)
            IN IF parsed.ok THEN [ok |-> TRUE, entry |-> parsed.entry]
               ELSE [ok |-> FALSE, code |-> "ENTRY_UNAVAILABLE"]

_to_summary(entry) ==
    [id |-> entry.id, title |-> entry.title, username |-> entry.username,
     url |-> entry.url, favorite |-> entry.favorite, updatedAt |-> entry.updatedAt]

\* The rows as the database holds them once written.
Flushed(table) ==
    [k \in DOMAIN table |-> [table[k] EXCEPT !.updated_at = sqlite_datetime(@)]]

\* The response of a route of the entry service and what it commits.
Commit(req, reg, resp, rows, table, allocated, draws) ==
    /\ request' = req
    /\ sessions' = reg
    /\ response' = resp
    /\ audit' = rows
    /\ entries' = Flushed(table)
    /\ created' = allocated
    /\ drawn' = draws
    /\ UNCHANGED <<now, call, returned, metadata, throttle, settings, issued>>
\* The same for a route that did not encrypt.
Answer(req, reg, resp, rows, table, allocated) ==
    Commit(req, reg, resp, rows, table, allocated, drawn)

Unauthorized(req, reg) ==
    Answer(req, reg, Response(401, "UNAUTHORIZED", TRUE), <<>>, entries, created)

EntryIdMeta(entry_id) == KV(KeyChars.entry_id, "str", uuid_str(entry_id))
NotFoundMeta(entry_id) ==
    <<EntryIdMeta(entry_id), KV(KeyChars.reason, "str", "not_found")>>

\* The orders list.sort(key = updatedAt, reverse = True) may leave the
\* entries in: newest first, ties in the order the table returned them.
\* The sort raises TypeError when naive and aware datetimes meet.
SortedNewestFirst(items) ==
    {seq \in [1..Cardinality(items) -> items] :
        /\ \A i, j \in DOMAIN seq : i # j => seq[i] # seq[j]
        /\ \A i, j \in DOMAIN seq :
              i < j => ~Later(seq[j].updatedAt, seq[i].updatedAt)}

\* GET /entries
list_entries(req) ==
    /\ req.method = "GET" /\ req.path = "/entries"
    /\ LET current == _require_unlocked_session(sessions, req, now)
       IN IF current.session = NoSession THEN Unauthorized(req, current.sessions)
          ELSE LET enc_key == current.session[1].enc_key
                   failed == {k \in DOMAIN entries : ~_decrypt_entry(entries[k], enc_key).ok}
                   decrypted == {_decrypt_entry(entries[k], enc_key).entry :
                                    k \in DOMAIN entries \ failed}
               IN IF failed # {}
                  THEN \E k \in failed :
                          Answer(req, current.sessions,
                                 Raised(_decrypt_entry(entries[k], enc_key).code),
                                 <<>>, entries, created)
                  ELSE IF \E a, b \in decrypted : ~Comparable(a.updatedAt, b.updatedAt)
                  THEN Answer(req, current.sessions, unhandled_exception_handler,
                              <<>>, entries, created)
                  ELSE \E sorted \in SortedNewestFirst(decrypted) :
                          Answer(req, current.sessions,
                                 [Response(200, "", TRUE) EXCEPT
                                    !.body = [i \in DOMAIN sorted |-> _to_summary(sorted[i])]],
                                 <<write_audit_event("ENTRY_LIST", "SUCCESS",
                                     <<KV(KeyChars.count, "int", Cardinality(decrypted))>>)>>,
                                 entries, created)

\* POST /entries (behind the gate)
create_entry(req, payload) ==
    /\ req.method = "POST" /\ req.path = "/entries"
    /\ LET g == CSRFMiddleware(req, sessions, now)
       IN IF ~g.pass THEN Rejected(WithBody(req, payload), g)
          ELSE LET current == _require_unlocked_session(g.sessions, req, now)
               IN IF current.session = NoSession
                  THEN Unauthorized(WithBody(req, payload), current.sessions)
                  ELSE LET entry == Entry(uuid4(created + 1), payload, utc(now))
                           encrypted == encrypt_json(current.session[1].enc_key,
                                                     Entry_model_dump(entry), fresh_nonce(1))
                       IN /\ created < MaxCreates /\ drawn < MaxDraws
                          /\ IF ~encrypted.ok
                             THEN Answer(WithBody(req, payload), current.sessions,
                                         unhandled_exception_handler,
                                         <<>>, entries, created + 1)
                             ELSE Commit(WithBody(req, payload), current.sessions,
                                         [Response(201, "", TRUE) EXCEPT !.body = entry],
                                         <<write_audit_event("ENTRY_CREATE", "SUCCESS",
                                             <<EntryIdMeta(entry.id)>>)>>,
                                         Put(entries, uuid_str(entry.id),
                                             EntryRecord(uuid_str(entry.id), encrypted, utc(now))),
                                         created + 1, drawn + 1)

\* GET /entries/{entry_id}
get_entry(req, entry_id) ==
    /\ req.method = "GET" /\ req.path = "/entries/" \o uuid_str(entry_id)
    /\ LET current == _require_unlocked_session(sessions, req, now)
       IN IF current.session = NoSession THEN Unauthorized(req, current.sessions)
          ELSE IF uuid_str(entry_id) \notin DOMAIN entries
          THEN Answer(req, current.sessions, Response(404, "ENTRY_NOT_FOUND", TRUE),
                      <<write_audit_event("ENTRY_GET", "FAILURE", NotFoundMeta(entry_id))>>,
                      entries, created)
          ELSE LET entry == _decrypt_entry(entries[uuid_str(entry_id)],
                                           current.session[1].enc_key)
               IN IF ~entry.ok
                  THEN Answer(req, current.sessions, Raised(entry.code),
                              <<>>, entries, created)
                  ELSE Answer(req, current.sessions,
                              [Response(200, "", TRUE) EXCEPT !.body = entry.entry],
                              <<write_audit_event("ENTRY_GET", "SUCCESS",
                                  <<EntryIdMeta(entry_id)>>)>>,
                              entries, created)

\* PUT /entries/{entry_id} (behind the gate)
update_entry(req, entry_id, payload) ==
    /\ req.method = "PUT" /\ req.path = "/entries/" \o uuid_str(entry_id)
    /\ LET g == CSRFMiddleware(req, sessions, now)
       IN IF ~g.pass THEN Rejected(WithBody(req, payload), g)
          ELSE LET current == _require_unlocked_session(g.sessions, req, now)
               IN IF current.session = NoSession
                  THEN Unauthorized(WithBody(req, payload), current.sessions)
                  ELSE IF uuid_str(entry_id) \notin DOMAIN entries
                  THEN Answer(WithBody(req, payload), current.sessions,
                              Response(404, "ENTRY_NOT_FOUND", TRUE),
                              <<write_audit_event("ENTRY_UPDATE", "FAILURE",
                                  NotFoundMeta(entry_id))>>,
                              entries, created)
                  ELSE LET entry == Entry(entry_id, payload, utc(now))
                           encrypted == encrypt_json(current.session[1].enc_key,
                                                     Entry_model_dump(entry), fresh_nonce(1))
                       IN /\ drawn < MaxDraws
                          /\ IF ~encrypted.ok
                             THEN Answer(WithBody(req, payload), current.sessions,
                                         unhandled_exception_handler,
                                         <<>>, entries, created)
                             ELSE Commit(WithBody(req, payload), current.sessions,
                                         [Response(200, "", TRUE) EXCEPT !.body = entry],
                                         <<write_audit_event("ENTRY_UPDATE", "SUCCESS",
                                             <<EntryIdMeta(entry_id)>>)>>,
                                         Put(entries, uuid_str(entry_id),
                                             EntryRecord(uuid_str(entry_id), encrypted, utc(now))),
                                         created, drawn + 1)

\* DELETE /entries/{entry_id} (behind the gate)
delete_entry(req, entry_id) ==
    /\ req.method = "DELETE" /\ req.path = "/entries/" \o uuid_str(entry_id)
    /\ LET g == CSRFMiddleware(req, sessions, now)
       IN IF ~g.pass THEN Rejected(req, g)
          ELSE LET current == _require_unlocked_session(g.sessions, req, now)
               IN IF current.session = NoSession THEN Unauthorized(req, current.sessions)
                  ELSE IF uuid_str(entry_id) \notin DOMAIN entries
                  THEN Answer(req, current.sessions, Response(404, "ENTRY_NOT_FOUND", TRUE),
                              <<write_audit_event("ENTRY_DELETE", "FAILURE",
                                  NotFoundMeta(entry_id))>>,
                              entries, created)
                  ELSE Answer(req, current.sessions, Response(204, "", TRUE),
                              <<write_audit_event("ENTRY_DELETE", "SUCCESS",
                                  <<EntryIdMeta(entry_id)>>)>>,
                              Delete(entries, uuid_str(entry_id)), created)

\* db.commit() raising in one of these handlers (sqlite3.OperationalError:
\* the database is locked by another connection, the disk is full): the
\* handlers have no except clause, so the exception leaves the handler,
\* get_db_session closes the database session, which discards what was
\* pending, and the handler registered for Exception answers.
commit_raises(req, reg, allocated, draws) ==
    Commit(req, reg, unhandled_exception_handler, <<>>, entries, allocated, draws)

\* POST /entries when db.commit() raises.
create_entry_commit_error(req, payload) ==
    /\ req.method = "POST" /\ req.path = "/entries"
    /\ LET g == CSRFMiddleware(req, sessions, now)
           current == _require_unlocked_session(g.sessions, req, now)
       IN /\ g.pass /\ current.session # NoSession
          /\ created < MaxCreates /\ drawn < MaxDraws
          /\ encrypt_json(current.session[1].enc_key,
                          Entry_model_dump(Entry(uuid4(created + 1), payload, utc(now))),
                          fresh_nonce(1)).ok
          /\ commit_raises(WithBody(req, payload), current.sessions, created + 1, drawn + 1)

\* PUT /entries/{entry_id} when db.commit() raises.
update_entry_commit_error(req, entry_id, payload) ==
    /\ req.method = "PUT" /\ req.path = "/entries/" \o uuid_str(entry_id)
    /\ LET g == CSRFMiddleware(req, sessions, now)
           current == _require_unlocked_session(g.sessions, req, now)
       IN /\ g.pass /\ current.session # NoSession
          /\ uuid_str(entry_id) \in DOMAIN entries
          /\ drawn < MaxDraws
          /\ encrypt_json(current.session[1].enc_key,
                          Entry_model_dump(Entry(entry_id, payload, utc(now))),
                          fresh_nonce(1)).ok
          /\ commit_raises(WithBody(req, payload), current.sessions, created, drawn + 1)

\* DELETE /entries/{entry_id} when db.commit() raises.
delete_entry_commit_error(req, entry_id) ==
    /\ req.method = "DELETE" /\ req.path = "/entries/" \o uuid_str(entry_id)
    /\ LET g == CSRFMiddleware(req, sessions, now)
           current == _require_unlocked_session(g.sessions, req, now)
       IN /\ g.pass /\ current.session # NoSession
          /\ uuid_str(entry_id) \in DOMAIN entries
          /\ commit_raises(req, current.sessions, created, drawn)

\* --------------------------------------------------- routes/settings.py
\* A validation with the lower limits alone.
SettingsModelValid_ge(p) == 1 <= p.autoLockMinutes /\ 5 <= p.clipboardClearSeconds
\* SettingsModel: autoLockMinutes in 1..120, clipboardClearSeconds in 5..120.
SettingsModelValid(p) ==
    /\ 1 <= p.autoLockMinutes /\ p.autoLockMinutes <= 120
    /\ 5 <= p.clipboardClearSeconds /\ p.clipboardClearSeconds <= 120

SettingsModel(record) ==
    [autoLockMinutes |-> record.auto_lock_minutes,
     clipboardClearSeconds |-> record.clipboard_clear_seconds,
     requireReauthForCopy |-> record.require_reauth_for_copy]

SettingsRecord(model) ==
    [auto_lock_minutes |-> model.autoLockMinutes,
     clipboard_clear_seconds |-> model.clipboardClearSeconds,
     require_reauth_for_copy |-> model.requireReauthForCopy]

\* Request bodies for PUT /settings: one in range, one not.
SettingsPayloads ==
    {[autoLockMinutes |-> 10, clipboardClearSeconds |-> 30, requireReauthForCopy |-> FALSE],
     [autoLockMinutes |-> 0, clipboardClearSeconds |-> 30, requireReauthForCopy |-> TRUE]}

settings_require_unlocked(reg, req, t) == get_session(reg, req.session_token, t)

\* settings._get_or_create_settings: the row, created with 5/15/true.
settings_get_or_create_settings(table) ==
    IF table = <<>>
    THEN <<[auto_lock_minutes |-> 5, clipboard_clear_seconds |-> 15,
            require_reauth_for_copy |-> TRUE]>>
    ELSE table

\* The response of a route that may write the settings row only.
AnswerSettings(req, reg, resp, rows, table) ==
    /\ request' = req
    /\ sessions' = reg
    /\ response' = resp
    /\ audit' = rows
    /\ settings' = table
    /\ UNCHANGED <<now, call, returned, metadata, throttle, entries, issued, created, drawn>>

\* GET /settings
get_settings(req) ==
    /\ req.method = "GET" /\ req.path = "/settings"
    /\ LET current == settings_require_unlocked(sessions, req, now)
       IN IF current.session = NoSession
          THEN AnswerSettings(req, current.sessions,
                              Response(401, "UNAUTHORIZED", TRUE), <<>>, settings)
          ELSE LET record == settings_get_or_create_settings(settings)
               IN AnswerSettings(req, current.sessions,
                                 [Response(200, "", TRUE) EXCEPT
                                    !.body = SettingsModel(record[1])],
                                 <<>>, record)

\* PUT /settings (behind the gate; the body is validated before the handler)
update_settings(req, payload) ==
    /\ req.method = "PUT" /\ req.path = "/settings"
    /\ LET g == CSRFMiddleware(req, sessions, now)
       IN IF ~g.pass THEN Rejected(WithBody(req, payload), g)
          ELSE IF ~SettingsModelValid(payload)
          THEN AnswerSettings(WithBody(req, payload), g.sessions,
                              Response(422, "VALIDATION_ERROR", FALSE), <<>>, settings)
          ELSE LET current == settings_require_unlocked(g.sessions, req, now)
               IN IF current.session = NoSession
                  THEN AnswerSettings(WithBody(req, payload), current.sessions,
                                      Response(401, "UNAUTHORIZED", TRUE), <<>>, settings)
                  ELSE AnswerSettings(WithBody(req, payload), current.sessions,
                                      [Response(200, "", TRUE) EXCEPT !.body = payload],
                                      <<write_audit_event("SETTINGS_UPDATE", "SUCCESS", <<>>)>>,
                                      <<SettingsRecord(payload)>>)

\* PUT /settings when db.commit() raises: as in the entry routes, nothing
\* catches the exception.
update_settings_commit_error(req, payload) ==
    /\ req.method = "PUT" /\ req.path = "/settings"
    /\ LET g == CSRFMiddleware(req, sessions, now)
           current == settings_require_unlocked(g.sessions, req, now)
       IN /\ g.pass /\ SettingsModelValid(payload) /\ current.session # NoSession
          /\ AnswerSettings(WithBody(req, payload), current.sessions,
                            unhandled_exception_handler, <<>>, settings)

\* A state-changing request passes through two registry lookups: the gate's
\* (middleware.py) and the handler's (_require_unlocked); each takes the
\* registry's lock on its own, and other threads may run between the two.
\* gate_passes: the gate lets the thread's request through to the router.
gate_passes(thread, req) ==
    /\ thread \notin DOMAIN call
    /\ LET g == CSRFMiddleware(req, sessions, now)
       IN /\ g.pass
          /\ sessions' = g.sessions
          /\ call' = (thread :> [request |-> req]) @@ call
          /\ UNCHANGED <<now, store, audit, issued, created, drawn, request, response,
                         returned>>

\* The handler of PUT /settings for a request the gate let through.
update_settings_handler(thread) ==
    /\ thread \in DOMAIN call
    /\ call[thread].request.method = "PUT" /\ call[thread].request.path = "/settings"
    /\ LET req == call[thread].request
           current == settings_require_unlocked(sessions, req, now)
       IN /\ request' = req
          /\ sessions' = current.sessions
          /\ call' = [other \in DOMAIN call \ {thread} |-> call[other]]
          /\ UNCHANGED <<now, returned, metadata, throttle, entries, issued, created, drawn>>
          /\ IF current.session = NoSession
             THEN /\ response' = Response(401, "UNAUTHORIZED", TRUE)
                  /\ audit' = <<>>
                  /\ settings' = settings
             ELSE /\ response' = [Response(200, "", TRUE) EXCEPT !.body = req.body]
                  /\ audit' = <<write_audit_event("SETTINGS_UPDATE", "SUCCESS", <<>>)>>
                  /\ settings' = <<SettingsRecord(req.body)>>

\* The handler of DELETE /entries/{entry_id} for a request the gate let
\* through.
delete_entry_handler(thread, entry_id) ==
    /\ thread \in DOMAIN call
    /\ call[thread].request.method = "DELETE"
    /\ call[thread].request.path = "/entries/" \o uuid_str(entry_id)
    /\ LET req == call[thread].request
           current == _require_unlocked_session(sessions, req, now)
       IN /\ request' = req
          /\ sessions' = current.sessions
          /\ call' = [other \in DOMAIN call \ {thread} |-> call[other]]
          /\ UNCHANGED <<now, returned, metadata, throttle, settings, issued, created, drawn>>
          /\ IF current.session = NoSession
             THEN /\ response' = Response(401, "UNAUTHORIZED", TRUE)
                  /\ audit' = <<>>
                  /\ entries' = entries
             ELSE IF uuid_str(entry_id) \notin DOMAIN entries
             THEN /\ response' = Response(404, "ENTRY_NOT_FOUND", TRUE)
                  /\ audit' = <<write_audit_event("ENTRY_DELETE", "FAILURE",
                                   NotFoundMeta(entry_id))>>
                  /\ entries' = entries
             ELSE /\ response' = Response(204, "", TRUE)
                  /\ audit' = <<write_audit_event("ENTRY_DELETE", "SUCCESS",
                                   <<EntryIdMeta(entry_id)>>)>>
                  /\ entries' = Flushed(Delete(entries, uuid_str(entry_id)))

\* ------------------------------------------------------ routes/audit.py
audit_require_unlocked(reg, req, t) == get_session(reg, req.session_token, t)

\* routes/audit._sanitize_meta: a value that is None is kept by the reader.
READER_SCALARS == {"bool", "str", "int", "float", "NoneType"}
audit_sanitize_meta(meta) ==
    IF meta = <<>> \/ meta[1] = <<>> THEN <<>>
    ELSE LET sanitized == SelectSeq(meta[1], LAMBDA item :
                             ~HasForbiddenHint(item.key) /\ item.kind \in READER_SCALARS)
         IN IF sanitized = <<>> THEN <<>> ELSE <<sanitized>>

\* AuditEvent(...): validate_meta_keys refuses a meta with a forbidden key.
AuditEvent(row, meta) ==
    IF meta # <<>> /\ \E i \in DOMAIN meta[1] : HasForbiddenHint(meta[1][i].key)
    THEN [ok |-> FALSE]
    ELSE [ok |-> TRUE, event |-> [type |-> row.type, outcome |-> row.outcome, meta |-> meta]]

\* GET /audit.  rows is what the SELECT on the audit table returns (the
\* state keeps only the rows of the latest request); id and ts of a row are
\* left out, and with them the order by ts.
list_audit(req, rows) ==
    /\ req.method = "GET" /\ req.path = "/audit"
    /\ LET current == audit_require_unlocked(sessions, req, now)
           output == [i \in DOMAIN rows |-> AuditEvent(rows[i], audit_sanitize_meta(rows[i].meta))]
       IN IF current.session = NoSession
          THEN AnswerSettings(req, current.sessions,
                              Response(401, "UNAUTHORIZED", TRUE), <<>>, settings)
          ELSE IF \E i \in DOMAIN output : ~output[i].ok
          THEN AnswerSettings(req, current.sessions, unhandled_exception_handler,
                              <<>>, settings)
          ELSE AnswerSettings(req, current.sessions,
                              [Response(200, "", TRUE) EXCEPT
                                 !.body = [i \in DOMAIN output |-> output[i].event]],
                              <<>>, settings)

\* -------------------------------------------------------------- backup.py
\* base64 text: the bytes it encodes, or text that is not base64.
_b64encode(data) == [valid |-> TRUE, data |-> data]
_b64decode(value) ==
    IF value.valid THEN [ok |-> TRUE, data |-> value.data] ELSE [ok |-> FALSE]

BackupBundle(bundle_entries, bundle_settings, exportedAt) ==
    [entries |-> bundle_entries, settings |-> bundle_settings, exportedAt |-> exportedAt]

\* bundle.model_dump(mode = "json")
BackupBundle_model_dump(bundle) ==
    [entries |-> [i \in DOMAIN bundle.entries |-> Entry_model_dump(bundle.entries[i])],
     settings |-> bundle.settings,
     exportedAt |-> isoformat(bundle.exportedAt)]

\* BackupBundle.model_validate(decrypted)
BackupBundle_model_validate(obj) ==
    IF /\ \A i \in DOMAIN obj.entries : Entry_model_validate(obj.entries[i]).ok
       /\ SettingsModelValid(obj.settings)
    THEN [ok |-> TRUE,
          bundle |-> BackupBundle(
                        [i \in DOMAIN obj.entries |-> Entry_model_validate(obj.entries[i]).entry],
                        obj.settings, fromisoformat(obj.exportedAt))]
    ELSE [ok |-> FALSE]

\* `if export_password:` / bool(export_password): neither None nor "".
Truthy(optional) == optional # <<>> /\ optional[1] # ""

\* build_backup_envelope; export_password is <<>> (None) or <<password>>,
\* salt and nonce are what os.urandom returned.
build_backup_envelope(bundle_entries, bundle_settings, session_enc_key, export_password, salt, nonce, t) ==
    IF session_enc_key.bytes # KEY_BYTES THEN [ok |-> FALSE, error |-> "ValueError"]
    ELSE LET bundle == BackupBundle(bundle_entries, bundle_settings, utc(t))
             protected == Truthy(export_password)
             master_key == derive_master_key_raw(export_password[1], salt,
                                                 DEFAULT_ARGON2_PARAMS)
         IN IF protected /\ ~master_key.ok
            THEN [ok |-> FALSE, error |-> master_key.error]
            ELSE LET backup_key == IF protected
                                   THEN derive_backup_key(master_key.key)
                                   ELSE session_enc_key
                     encrypted == encrypt_json(backup_key,
                                               BackupBundle_model_dump(bundle), nonce)
                 IN [ok |-> TRUE,
                     envelope |->
                       [version |-> 1,
                        createdAt |-> isoformat(utc(t)),
                        kdfParams |-> IF protected
                                      THEN <<[memoryCost |-> DEFAULT_ARGON2_PARAMS.memory_cost,
                                              timeCost |-> DEFAULT_ARGON2_PARAMS.time_cost,
                                              parallelism |-> DEFAULT_ARGON2_PARAMS.parallelism]>>
                                      ELSE <<>>,
                        salt |-> IF protected
                                 THEN <<_b64encode(salt)>> ELSE <<>>,
                        export |-> [nonce |-> _b64encode(encrypted.nonce),
                                    ciphertext |-> _b64encode(encrypted.ciphertext)],
                        note |-> "encrypted-only"]]

\* envelope_to_json_bytes: the file a client saves.
envelope_to_json_bytes(envelope) == [utf8 |-> TRUE, json |-> TRUE, value |-> envelope]

\* parse_backup_json: bytes -> envelope, ValueError for bytes that are not
\* UTF-8, not JSON, or no BackupEnvelope.
parse_backup_json(raw_bytes) ==
    IF ~raw_bytes.utf8 \/ ~raw_bytes.json THEN [ok |-> FALSE]
    ELSE IF /\ raw_bytes.value.kdfParams # <<>>
            /\ ~(/\ raw_bytes.value.kdfParams[1].memoryCost > 0
                 /\ raw_bytes.value.kdfParams[1].timeCost > 0
                 /\ raw_bytes.value.kdfParams[1].parallelism > 0)
    THEN [ok |-> FALSE]
    ELSE [ok |-> TRUE, envelope |-> raw_bytes.value]

\* The exceptions an `except ValueError` clause catches.
IsValueError(error) ==
    error \in {"ValueError", "CryptoIntegrityError", "UnicodeDecodeError",
               "ValidationError"}

\* A key selection that always takes the session encryption key.
_resolve_import_key_session(envelope, session_enc_key, import_password) ==
    [ok |-> TRUE, key |-> session_enc_key]

\* A key selection that takes the session encryption key whenever kdfParams
\* or salt is absent.
_resolve_import_key_lenient(envelope, session_enc_key, import_password) ==
    IF envelope.kdfParams = <<>> \/ envelope.salt = <<>>
    THEN [ok |-> TRUE, key |-> session_enc_key]
    ELSE _resolve_import_key_session(envelope, session_enc_key, import_password)

\* _resolve_import_key; import_password is <<>> (None) or <<password>>.
_resolve_import_key(envelope, session_enc_key, import_password) ==
    IF envelope.kdfParams = <<>> /\ envelope.salt = <<>>
    THEN [ok |-> TRUE, key |-> session_enc_key]
    ELSE IF envelope.kdfParams = <<>> \/ envelope.salt = <<>>
    THEN [ok |-> FALSE, error |-> "ValueError", message |-> "Invalid backup file."]
    ELSE IF import_password = <<>> \/ import_password[1] = ""
    THEN [ok |-> FALSE, error |-> "ValueError", message |-> "Import password required."]
    ELSE LET salt == _b64decode(envelope.salt[1])
             params == [memory_cost |-> envelope.kdfParams[1].memoryCost,
                        time_cost |-> envelope.kdfParams[1].timeCost,
                        parallelism |-> envelope.kdfParams[1].parallelism]
         IN IF ~salt.ok
            THEN [ok |-> FALSE, error |-> "ValueError",
                  message |-> "Invalid backup encoding."]
            ELSE LET master_key == derive_master_key_raw(import_password[1],
                                                         salt.data, params)
                 IN IF ~master_key.ok
                    THEN [ok |-> FALSE, error |-> master_key.error,
                          message |-> "derive_master_key_raw"]
                    ELSE [ok |-> TRUE, key |-> derive_backup_key(master_key.key)]

\* load_backup_bundle: error is the class of the exception that reaches the
\* caller (CryptoIntegrityError and ValidationError are re-raised as
\* ValueError), decrypts the number of decrypt_json calls it made.
load_backup_bundle(envelope, session_enc_key, import_password) ==
    LET key == _resolve_import_key(envelope, session_enc_key, import_password)
        nonce == _b64decode(envelope.export.nonce)
        ciphertext == _b64decode(envelope.export.ciphertext)
    IN IF ~key.ok
       THEN [ok |-> FALSE, error |-> key.error, message |-> key.message, decrypts |-> 0]
       ELSE IF ~nonce.ok \/ ~ciphertext.ok
       THEN [ok |-> FALSE, error |-> "ValueError",
             message |-> "Invalid backup encoding.", decrypts |-> 0]
       ELSE LET decrypted == decrypt_json(key.key, nonce.data, ciphertext.data)
            IN IF ~decrypted.ok
               THEN [ok |-> FALSE,
                     error |-> IF decrypted.error = "CryptoIntegrityError"
                               THEN "ValueError" ELSE decrypted.error,
                     message |-> IF decrypted.error = "CryptoIntegrityError"
                                 THEN "Backup decryption failed."
                                 ELSE "decrypt_json",
                     decrypts |-> 1]
               ELSE LET validated == BackupBundle_model_validate(decrypted.value)
                    IN IF validated.ok
                       THEN [ok |-> TRUE, bundle |-> validated.bundle, decrypts |-> 1]
                       ELSE [ok |-> FALSE, error |-> "ValueError",
                             message |-> "Invalid backup file.", decrypts |-> 1]

\* ----------------------------------------------------- routes/backup.py
backup_require_unlocked_session(reg, req, t) == get_session(reg, req.session_token, t)

\* backup._load_settings: the row, created with 5/15/true when missing.
_load_settings(table) ==
    IF table = <<>>
    THEN <<[auto_lock_minutes |-> 5, clipboard_clear_seconds |-> 15,
            require_reauth_for_copy |-> TRUE]>>
    ELSE table

\* _decrypt_rows_as_entries, one row: only CryptoIntegrityError is turned
\* into ENTRY_UNAVAILABLE.
_decrypt_rows_as_entries(row, enc_key) ==
    LET payload == decrypt_json(enc_key, row.nonce, row.ciphertext)
    IN IF ~payload.ok
       THEN [ok |-> FALSE,
             code |-> IF payload.error = "CryptoIntegrityError"
                      THEN "ENTRY_UNAVAILABLE" ELSE "INTERNAL_ERROR"]
       ELSE LET parsed == Entry_model_validate(payload.value)
            IN IF parsed.ok THEN [ok |-> TRUE, entry |-> parsed.entry]
               ELSE [ok |-> FALSE, code |-> "INTERNAL_ERROR"]

\* The orders in which a SELECT without ORDER BY may return rows.
Orderings(items) ==
    {seq \in [1..Cardinality(items) -> items] :
        \A i, j \in DOMAIN seq : i # j => seq[i] # seq[j]}

\* _compute_import_summary: (added, updated, skipped, errors)
_compute_import_summary(table, incoming_entries) ==
    LET key(i) == uuid_str(incoming_entries[i].id)
        idx == DOMAIN incoming_entries
    IN [added |-> Cardinality({i \in idx : key(i) \notin DOMAIN table}),
        updated |-> Cardinality({i \in idx : /\ key(i) \in DOMAIN table
                                             /\ Later(incoming_entries[i].updatedAt,
                                                      table[key(i)].updated_at)}),
        skipped |-> Cardinality({i \in idx : /\ key(i) \in DOMAIN table
                                             /\ ~Later(incoming_entries[i].updatedAt,
                                                       table[key(i)].updated_at)}),
        errors |-> <<>>]

SummaryMeta(summary) ==
    <<KV(KeyChars.added, "int", summary.added),
      KV(KeyChars.updated, "int", summary.updated),
      KV(KeyChars.skipped, "int", summary.skipped),
      KV(KeyChars.errors, "int", Len(summary.errors))>>

InvalidBackupFile ==
    [added |-> 0, updated |-> 0, skipped |-> 0, errors |-> <<"Invalid backup file.">>]

\* file.filename.lower().endswith(".json")
EndsWith(chars, suffix) ==
    /\ Len(chars) >= Len(suffix)
    /\ SubSeq(chars, Len(chars) - Len(suffix) + 1, Len(chars)) = suffix
HasJsonExtension(filename) ==
    filename # <<>> /\ EndsWith(Lower(filename), <<".", "j", "s", "o", "n">>)

\* The response of a backup route and what it commits.
Transact(req, reg, resp, rows, entry_table, settings_table, draws) ==
    /\ request' = req
    /\ sessions' = reg
    /\ response' = resp
    /\ audit' = rows
    /\ entries' = Flushed(entry_table)
    /\ settings' = settings_table
    /\ drawn' = draws
    /\ UNCHANGED <<now, call, returned, metadata, throttle, issued, created>>
\* A reply that writes the settings row anew with its defaults.
Reply_resetting_settings(req, reg, resp, rows, entry_table, settings_table) ==
    Transact(req, reg, resp, rows, entry_table, _load_settings(<<>>), drawn)
\* The same for a request that did not encrypt.
Reply(req, reg, resp, rows, entry_table, settings_table) ==
    Transact(req, reg, resp, rows, entry_table, settings_table, drawn)

\* A rollback that keeps what was pending.
rollback_none(before, pending) == pending
\* db.rollback(): the rows as they were before the transaction began, in
\* place of those the transaction had pending.
rollback(before, pending) == before

\* The loop of apply_import_backup over bundle.entries from index i on:
\* existing_map is the table as read before the loop, table the rows as the
\* loop has left them, pending the keys added by the loop.  Two adds of one
\* key make the flush of db.commit() fail (ok = FALSE) after the loop ran.
RECURSIVE apply_entries(_, _, _, _, _, _)
apply_entries(incoming, i, table, existing_map, pending, enc_key) ==
    IF i > Len(incoming) THEN [ok |-> TRUE, table |-> table]
    ELSE LET key == uuid_str(incoming[i].id)
             encrypted == encrypt_json(enc_key, Entry_model_dump(incoming[i]), fresh_nonce(i))
             row == EntryRecord(key, encrypted, incoming[i].updatedAt)
         IN IF ~encrypted.ok THEN [ok |-> FALSE, table |-> table]
            ELSE IF key \notin DOMAIN existing_map
            THEN IF key \in pending
                 THEN [apply_entries(incoming, i + 1, table, existing_map, pending,
                                     enc_key) EXCEPT !.ok = FALSE]
                 ELSE apply_entries(incoming, i + 1, Put(table, key, row), existing_map,
                                    pending \cup {key}, enc_key)
            ELSE IF Later(incoming[i].updatedAt, table[key].updated_at)
            THEN apply_entries(incoming, i + 1, Put(table, key, row), existing_map,
                               pending, enc_key)
            ELSE apply_entries(incoming, i + 1, table, existing_map,
                               pending, enc_key)

\* POST /backup/export (behind the gate)
export_backup(req, exportPassword, salt) ==
    /\ req.method = "POST" /\ req.path = "/backup/export"
    /\ LET full == WithBody(req, [exportPassword |-> exportPassword])
           g == CSRFMiddleware(req, sessions, now)
       IN IF ~g.pass THEN Rejected(full, g)
          ELSE LET current == backup_require_unlocked_session(g.sessions, req, now)
               IN IF current.session = NoSession
                  THEN Reply(full, current.sessions, Response(401, "UNAUTHORIZED", TRUE),
                             <<>>, entries, settings)
                  ELSE LET enc_key == current.session[1].enc_key
                           failed == {k \in DOMAIN entries :
                                         ~_decrypt_rows_as_entries(entries[k], enc_key).ok}
                           decrypted == {_decrypt_rows_as_entries(entries[k], enc_key).entry :
                                            k \in DOMAIN entries \ failed}
                           app_settings == _load_settings(settings)
                       IN IF failed # {}
                          THEN \E k \in failed :
                                  Reply(full, current.sessions,
                                        Raised(_decrypt_rows_as_entries(
                                                         entries[k], enc_key).code),
                                        <<>>, entries, settings)
                          ELSE \E listed \in Orderings(decrypted) :
                                  LET built == build_backup_envelope(
                                                  listed, SettingsModel(app_settings[1]),
                                                  enc_key, exportPassword, salt,
                                                  fresh_nonce(1), now)
                                  IN IF ~built.ok
                                     THEN Reply(full, current.sessions,
                                                unhandled_exception_handler,
                                                <<>>, entries, settings)
                                     ELSE /\ drawn < MaxDraws
                                          /\ Transact(full, current.sessions,
                                                [Response(200, "", TRUE) EXCEPT
                                                   !.body = built.envelope],
                                                <<write_audit_event("BACKUP_EXPORT", "SUCCESS",
                                                    <<KV(KeyChars.entry_count, "int",
                                                         Cardinality(decrypted)),
                                                      KV(KeyChars.password_protected, "bool",
                                                         Truthy(exportPassword))>>)>>,
                                                entries, app_settings, drawn + 1)

\* POST /backup/import/preview (behind the gate)
preview_import_backup(req, file, password) ==
    /\ req.method = "POST" /\ req.path = "/backup/import/preview"
    /\ LET full == WithBody(req, [file |-> file, password |-> password])
           g == CSRFMiddleware(req, sessions, now)
           Failure(reg, reason) ==
               Reply(full, reg, [Response(200, "", TRUE) EXCEPT !.body = InvalidBackupFile],
                     <<write_audit_event("BACKUP_IMPORT_PREVIEW", "FAILURE",
                         <<KV(KeyChars.reason, "str", reason)>>)>>,
                     entries, settings)
       IN IF ~g.pass THEN Rejected(full, g)
          ELSE LET current == backup_require_unlocked_session(g.sessions, req, now)
               IN IF current.session = NoSession
                  THEN Reply(full, current.sessions, Response(401, "UNAUTHORIZED", TRUE),
                             <<>>, entries, settings)
                  ELSE IF ~HasJsonExtension(file.filename)
                  THEN Failure(current.sessions, "invalid_file_extension")
                  ELSE LET envelope == parse_backup_json(file.raw_bytes)
                       IN IF ~envelope.ok THEN Failure(current.sessions, "invalid_file")
                          ELSE LET bundle == load_backup_bundle(envelope.envelope,
                                                 current.session[1].enc_key, password)
                               IN IF ~bundle.ok /\ ~IsValueError(bundle.error)
                                  THEN Reply(full, current.sessions,
                                             unhandled_exception_handler,
                                             <<>>, entries, settings)
                                  ELSE IF ~bundle.ok
                                  THEN Failure(current.sessions, "decrypt_failed")
                                  ELSE LET summary == _compute_import_summary(
                                                         entries, bundle.bundle.entries)
                                       IN Reply(full, current.sessions,
                                                [Response(200, "", TRUE) EXCEPT
                                                   !.body = summary],
                                                <<write_audit_event("BACKUP_IMPORT_PREVIEW",
                                                    "SUCCESS", SummaryMeta(summary))>>,
                                                entries, settings)

\* POST /backup/import/apply (behind the gate)
apply_import_backup(req, file, password) ==
    /\ req.method = "POST" /\ req.path = "/backup/import/apply"
    /\ LET full == WithBody(req, [file |-> file, password |-> password])
           g == CSRFMiddleware(req, sessions, now)
           Failure(reg, reason) ==
               Reply(full, reg, [Response(200, "", TRUE) EXCEPT !.body = InvalidBackupFile],
                     <<write_audit_event("BACKUP_IMPORT_APPLY", "FAILURE",
                         <<KV(KeyChars.reason, "str", reason)>>)>>,
                     entries, settings)
       IN IF ~g.pass THEN Rejected(full, g)
          ELSE LET current == backup_require_unlocked_session(g.sessions, req, now)
               IN IF current.session = NoSession
                  THEN Reply(full, current.sessions, Response(401, "UNAUTHORIZED", TRUE),
                             <<>>, entries, settings)
                  ELSE IF ~HasJsonExtension(file.filename)
                  THEN Failure(current.sessions, "invalid_file_extension")
                  ELSE LET envelope == parse_backup_json(file.raw_bytes)
                           bundle == load_backup_bundle(envelope.envelope,
                                         current.session[1].enc_key, password)
                       IN IF envelope.ok /\ ~bundle.ok /\ ~IsValueError(bundle.error)
                          THEN Reply(full, current.sessions, unhandled_exception_handler,
                                     <<>>, entries, settings)
                          ELSE IF ~envelope.ok \/ ~bundle.ok
                          THEN Failure(current.sessions, "invalid_file")
                          ELSE LET incoming == bundle.bundle.entries
                                   summary == _compute_import_summary(entries, incoming)
                                   applied == apply_entries(incoming, 1, entries, entries, {},
                                                 current.session[1].enc_key)
                               IN /\ drawn + Len(incoming) <= MaxDraws
                                  /\ IF ~applied.ok
                                     THEN Transact(full, current.sessions,
                                             Response(400, "IMPORT_FAILED", TRUE),
                                             <<write_audit_event("BACKUP_IMPORT_APPLY", "FAILURE",
                                                 <<KV(KeyChars.reason, "str",
                                                      "transaction_failed")>>)>>,
                                             rollback(entries, applied.table),
                                             rollback(settings,
                                                <<SettingsRecord(bundle.bundle.settings)>>),
                                             drawn + Len(incoming))
                                     ELSE Transact(full, current.sessions,
                                             [Response(200, "", TRUE) EXCEPT !.body = summary],
                                             <<write_audit_event("BACKUP_IMPORT_APPLY",
                                                 "SUCCESS", SummaryMeta(summary))>>,
                                             applied.table,
                                             <<SettingsRecord(bundle.bundle.settings)>>,
                                             drawn + Len(incoming))

\* ---------------------------------------------------------------- time
\* The clock advances to the instants at which a deadline of the state
\* changes what a request sees: the second before next_allowed_at and that
\* second itself; the last second of a session's idle window and the first
\* second past it.
ThrottleDeadlines ==
    IF throttle # <<>> /\ throttle[1].next_allowed_at # NULL
    THEN {throttle[1].next_allowed_at - 1, throttle[1].next_allowed_at}
    ELSE {}

IdleDeadlines ==
    UNION {{sessions[k].last_seen + idle_timeout,
            sessions[k].last_seen + idle_timeout + 1} : k \in DOMAIN sessions}

Advance(t) ==
    /\ t > now /\ t <= MaxTime
    /\ now' = t
    /\ UNCHANGED <<store, call, returned, audit, sessions, issued, created, drawn,
                   request, response>>

TickThrottle == \E t \in ThrottleDeadlines : Advance(t)
TickIdle == \E t \in IdleDeadlines : Advance(t)

\* ------------------------------------------------------- specifications
\* The state after construction, but for the latest decrypt_json call.
InitStore ==
    /\ now = 0
    /\ metadata = <<>>
    /\ throttle = <<>>
    /\ settings = <<>>
    /\ entries = <<>>
    /\ audit = <<>>
    /\ sessions = <<>>
    /\ issued = 0
    /\ created = 0
    /\ drawn = 0
    /\ request = Request("GET", "/health", "", "", "")
    /\ response = [Response(200, "", TRUE) EXCEPT !.body = "ok"]
Init ==
    /\ InitStore
    /\ call = <<>>
    /\ returned = <<>>

Setup == \E in \in SetupInputs : vault_setup(in.masterPassword, in.hint, in.salt)
Unlock == \E pw \in Passwords : vault_unlock(pw)
Status == \E st \in SessionCookies : vault_status(Request("GET", "/vault/status", st, "", ""))
\* Probes: POST under every combination of cookies and header, the other
\* methods as a browser sends them.
Probe ==
    \/ \E req \in AnyRequest("POST", "/_internal/csrf-probe") : csrf_probe(req)
    \/ \E m \in {"PUT", "DELETE", "PATCH", "GET", "OPTIONS", "HEAD"} :
          \E req \in BrowserRequest(m, "/_internal/csrf-probe") : csrf_probe(req)
\* A client that knows the master password unlocks.
Login == \E pw \in Passwords :
            /\ ~NoVerifier /\ verify_password(pw, metadata[1].pw_verifier)
            /\ vault_unlock(pw)
LockBrowser == \E req \in BrowserRequest("POST", "/vault/lock") : vault_lock(req)

\* ---- the entry service, settings, audit and backup as clients drive them
\* The owner sets the vault up.
Install ==
    \E in \in SetupInputs :
        /\ in.masterPassword = "CorrectHorseBatteryStaple!"
        /\ vault_setup(in.masterPassword, in.hint, in.salt)

\* The token names a registered session within its idle timeout.
IsLive(token) ==
    /\ token \in DOMAIN sessions
    /\ now - sessions[token].last_seen <= idle_timeout

\* What a client that has unlocked sends: the cookies and header of that
\* unlock, whether its session is still live, was locked, or has expired.
SessionRequest(method, path) ==
    {Request(method, path, token_urlsafe(i), csrf_urlsafe(i), csrf_urlsafe(i)) :
        i \in 1..issued}
\* The same from a client whose session is live.
LiveRequest(method, path) ==
    {r \in SessionRequest(method, path) : IsLive(r.session_token)}
\* What a client without a live session sends: no cookie, a forged cookie,
\* or the cookies of a session that was locked or has expired.
StaleRequest(method, path) ==
    {Request(method, path, "", "", ""), Request(method, path, "forged", "forged", "forged")}
    \cup {r \in SessionRequest(method, path) : ~IsLive(r.session_token)}

\* Identifiers a request or a backup file may name: those allocated so far
\* and one that was allocated elsewhere.
ForeignId == MaxCreates + 1
KnownIds == (1..created) \cup {ForeignId}

CreatePayload == CHOOSE p \in EntryPayloads : p.title = "github"
UpdatePayload == CHOOSE p \in EntryPayloads : p.title = "gitlab"
SettingsPayload == CHOOSE p \in SettingsPayloads : SettingsModelValid(p)

\* Backup files made elsewhere with build_backup_envelope under an export
\* password: one entry of a known id, older or newer than anything stored
\* here, or the same new entry twice.
BackupPassword == "backup-password-1"
ImportTimes == {0, 5000}
ElsewhereKey ==
    derive_enc_key(derive_master_key_raw("another-vault-password",
                                         generate_argon2_salt(1),
                                         DEFAULT_ARGON2_PARAMS).key)
ElsewhereSettings ==
    [autoLockMinutes |-> 30, clipboardClearSeconds |-> 60, requireReauthForCopy |-> FALSE]
ElsewhereBundles ==
    {<<Entry(id, UpdatePayload, utc(t))>> : id \in KnownIds, t \in ImportTimes}
    \cup {<<Entry(ForeignId, UpdatePayload, utc(5000)),
             Entry(ForeignId, UpdatePayload, utc(5000))>>}
ElsewhereFile(bundle_entries) ==
    envelope_to_json_bytes(
        build_backup_envelope(bundle_entries, ElsewhereSettings, ElsewhereKey,
                              <<BackupPassword>>, generate_argon2_salt(1),
                              urandom(AES_GCM_NONCE_BYTES, 1), 5000).envelope)
\* Files this vault exported earlier without a password, when an entry
\* that has since been changed or deleted was stored.
OwnBundles == {<<Entry(id, UpdatePayload, utc(0))>> : id \in 1..created}
OwnFiles ==
    {envelope_to_json_bytes(
        build_backup_envelope(b, SettingsModel(_load_settings(settings)[1]),
                              sessions[token].enc_key, <<>>, generate_argon2_salt(1),
                              urandom(AES_GCM_NONCE_BYTES, 1), 0).envelope) :
        b \in OwnBundles, token \in DOMAIN sessions}
NotJson == [utf8 |-> TRUE, json |-> FALSE, value |-> <<>>]
JsonName == <<"b", "a", "c", "k", "u", "p", ".", "J", "S", "O", "N">>
TextName == <<"b", "a", "c", "k", "u", "p", ".", "t", "x", "t">>
Upload(filename, raw_bytes, password) ==
    [file |-> [filename |-> filename, raw_bytes |-> raw_bytes], password |-> password]
\* Uploads: the file and the password field (<<>> when absent).
Uploads ==
    {Upload(TextName, NotJson, <<>>)}
    \cup {Upload(JsonName, ElsewhereFile(b), <<BackupPassword>>) : b \in ElsewhereBundles}
    \cup {Upload(JsonName, f, <<>>) : f \in OwnFiles}

\* Writers: clients that have unlocked use the entry service and the backup.
CreateEntry ==
    \E req \in SessionRequest("POST", "/entries") : create_entry(req, CreatePayload)
UpdateEntry ==
    \E id \in KnownIds :
        \E req \in SessionRequest("PUT", "/entries/" \o uuid_str(id)) :
            update_entry(req, id, UpdatePayload)
DeleteEntry ==
    \E id \in KnownIds :
        \E req \in SessionRequest("DELETE", "/entries/" \o uuid_str(id)) :
            delete_entry(req, id)
ApplyImport ==
    \E req \in SessionRequest("POST", "/backup/import/apply"), up \in Uploads :
        apply_import_backup(req, up.file, up.password)
LockSession == \E req \in SessionRequest("POST", "/vault/lock") : vault_lock(req)

\* The stored entries under create, update, delete and import by clients
\* that have unlocked.
NextEntries ==
    \/ Install \/ Login
    \/ CreateEntry \/ UpdateEntry \/ DeleteEntry \/ ApplyImport
SpecEntries == Init /\ [][NextEntries]_vars

\* One client with a live session fills the store ...
SeedEntry ==
    \E req \in LiveRequest("POST", "/entries") :
        create_entry(req, CreatePayload)
SeedSettings ==
    \E req \in LiveRequest("PUT", "/settings") : update_settings(req, SettingsPayload)
\* ... while clients without one try every route.
StaleListEntries == \E req \in StaleRequest("GET", "/entries") : list_entries(req)
StaleCreateEntry ==
    \E req \in StaleRequest("POST", "/entries") :
        create_entry(req, CreatePayload)
StaleGetEntry ==
    \E id \in KnownIds :
        \E req \in StaleRequest("GET", "/entries/" \o uuid_str(id)) : get_entry(req, id)
StaleUpdateEntry ==
    \E id \in KnownIds :
        \E req \in StaleRequest("PUT", "/entries/" \o uuid_str(id)) :
            update_entry(req, id, UpdatePayload)
StaleDeleteEntry ==
    \E id \in KnownIds :
        \E req \in StaleRequest("DELETE", "/entries/" \o uuid_str(id)) :
            delete_entry(req, id)
StaleGetSettings == \E req \in StaleRequest("GET", "/settings") : get_settings(req)
StaleUpdateSettings ==
    \E req \in StaleRequest("PUT", "/settings"), payload \in SettingsPayloads :
        update_settings(req, payload)
StaleListAudit == \E req \in StaleRequest("GET", "/audit") : list_audit(req, audit)
StaleExportBackup ==
    \E req \in StaleRequest("POST", "/backup/export") :
        export_backup(req, <<>>, generate_argon2_salt(1))
StaleUpload == Upload(JsonName, ElsewhereFile(<<Entry(ForeignId, UpdatePayload, utc(5000))>>),
                      <<BackupPassword>>)
StalePreviewImport ==
    \E req \in StaleRequest("POST", "/backup/import/preview") :
        preview_import_backup(req, StaleUpload.file, StaleUpload.password)
StaleApplyImport ==
    \E req \in StaleRequest("POST", "/backup/import/apply") :
        apply_import_backup(req, StaleUpload.file, StaleUpload.password)

\* Access to the protected routes without a live session, in every vault
\* state: before setup, locked, after a lock, after an idle eviction.
NextAccess ==
    \/ Install \/ Login \/ LockSession \/ TickIdle \/ SeedEntry \/ SeedSettings
    \/ StaleListEntries \/ StaleCreateEntry \/ StaleGetEntry \/ StaleUpdateEntry
    \/ StaleDeleteEntry \/ StaleGetSettings \/ StaleUpdateSettings \/ StaleListAudit
    \/ StaleExportBackup \/ StalePreviewImport \/ StaleApplyImport
SpecAccess == Init /\ [][NextAccess]_vars

\* The vault and everything that writes to its store: setup (first and
\* repeated), unlock attempts, lock, status, the entry service, settings and
\* import.
ReviseEntry ==
    \E id \in 1..created :
        \E req \in LiveRequest("PUT", "/entries/" \o uuid_str(id)) :
            update_entry(req, id, UpdatePayload)
RestoreBackup ==
    \E req \in LiveRequest("POST", "/backup/import/apply") :
        apply_import_backup(req, StaleUpload.file, StaleUpload.password)
NextStore ==
    \/ Setup \/ Unlock \/ LockSession \/ SeedEntry \/ ReviseEntry \/ DeleteEntry
    \/ SeedSettings \/ RestoreBackup
SpecStore == Init /\ [][NextStore]_vars

\* The unlock throttle: setup and unlock attempts, the clock moving from one
\* back-off deadline to the next.
NextThrottle == Setup \/ Unlock \/ TickThrottle
SpecThrottle == Init /\ [][NextThrottle]_vars

ProbeBrowser == \E req \in BrowserRequest("POST", "/_internal/csrf-probe") : csrf_probe(req)

\* The vault lifecycle as browsers drive it: setup, unlock, lock, status, a
\* gated request, the clock moving from one idle deadline to the next.
NextVault == Setup \/ Unlock \/ Status \/ LockBrowser \/ ProbeBrowser \/ TickIdle
SpecVault == Init /\ [][NextVault]_vars

\* The request gate under every combination of cookies and header.
NextGate == Setup \/ Login \/ Probe \/ LockBrowser \/ TickIdle
SpecGate == Init /\ [][NextGate]_vars

\* Rows of the entries table as something other than this program may have
\* left them in the database file (models.py EntryRecord: nonce and
\* ciphertext are BLOB columns without a length or content constraint).
NotUtf8 == [utf8 |-> FALSE, json |-> FALSE, value |-> <<>>]
\* The JSON document of an object that is no Entry: its title is empty.
NotEntry(id) ==
    _canonical_json([Entry_model_dump(Entry(id, CreatePayload, utc(0))) EXCEPT !.title = ""])
\* The documents a holder of the key may have sealed in place of an Entry.
SealedOther(row, key) ==
    {[row EXCEPT !.ciphertext = AESGCM_encrypt(key, row.nonce, plaintext, AES_GCM_AAD)] :
        plaintext \in {NotUtf8, NotJson, NotEntry(uuid_parse(row.id))}}
Damaged(row, key) ==
    {[row EXCEPT !.ciphertext = flip_bit(@, i)] : i \in 1..MaxBit}
    \cup {[row EXCEPT !.nonce = urandom(n, @.val)] :
            n \in {AES_GCM_NONCE_BYTES - 1, AES_GCM_NONCE_BYTES + 4}}
    \cup SealedOther(row, key)
\* One change to a row that was still as the program wrote it.
DamageRecord ==
    \E k \in DOMAIN entries, token \in DOMAIN sessions :
        \E row \in Damaged(entries[k], sessions[token].enc_key) :
            /\ _decrypt_entry(entries[k], sessions[token].enc_key).ok
            /\ entries' = Put(entries, k, row)
            /\ UNCHANGED <<now, call, returned, metadata, throttle, settings, audit, sessions, issued,
                           created, drawn, request, response>>

\* Clients with a live session read, change and remove entries by id, ids
\* that are not stored included.
ReadEntry ==
    \E id \in KnownIds :
        \E req \in LiveRequest("GET", "/entries/" \o uuid_str(id)) : get_entry(req, id)
ChangeEntry ==
    \E id \in KnownIds :
        \E req \in LiveRequest("PUT", "/entries/" \o uuid_str(id)) :
            update_entry(req, id, UpdatePayload)
RemoveEntry ==
    \E id \in KnownIds :
        \E req \in LiveRequest("DELETE", "/entries/" \o uuid_str(id)) :
            delete_entry(req, id)

\* Reads, changes and removals by id over a store whose rows may have been
\* damaged on disk.
NextRead ==
    \/ Install \/ Login \/ SeedEntry \/ RestoreBackup \/ DamageRecord
    \/ ReadEntry \/ ChangeEntry \/ RemoveEntry
SpecRead == Init /\ [][NextRead]_vars

\* A client with a live session lists the entries, and restores entries
\* that another vault exported, older or newer than its own, or that
\* another tool wrote with a timestamp without timezone.
ListEntries == \E req \in LiveRequest("GET", "/entries") : list_entries(req)
NaiveBundles == {<<Entry(ForeignId, UpdatePayload, datetime(5000, NULL))>>}
RestoreElsewhere ==
    \E req \in LiveRequest("POST", "/backup/import/apply"),
       b \in ElsewhereBundles \cup NaiveBundles :
        LET up == Upload(JsonName, ElsewhereFile(b), <<BackupPassword>>)
        IN apply_import_backup(req, up.file, up.password)

\* Listings of a store filled by create, update and import at several times.
NextList ==
    \/ Install \/ Login \/ TickIdle \/ SeedEntry \/ ChangeEntry \/ RestoreElsewhere
    \/ ListEntries
SpecList == Init /\ [][NextList]_vars

\* Arguments of encrypt_json and decrypt_json: keys of 32 bytes and one of
\* 16, nonces of 12 bytes and of other lengths, objects to seal.
CryptoKeys ==
    {derive_enc_key(derive_master_key_raw(pw, generate_argon2_salt(1),
                                          DEFAULT_ARGON2_PARAMS).key) :
        pw \in {"CorrectHorseBatteryStaple!", "another-vault-password"}}
ShortKey == [bytes |-> 16, hkdf |-> "vault/enc_key/v1", ikm |-> <<>>]
CryptoNonces ==
    {urandom(AES_GCM_NONCE_BYTES, v) : v \in 1..2}
    \cup {urandom(AES_GCM_NONCE_BYTES - 1, 1), urandom(AES_GCM_NONCE_BYTES + 4, 1)}
CryptoObjects == {Entry_model_dump(Entry(1, p, utc(0))) : p \in EntryPayloads}
\* Byte strings that may be handed to decrypt_json: what AES-GCM returned
\* for some key, 12-byte nonce, associated data and plaintext (a JSON
\* document, bytes that are not UTF-8, text that is not JSON), intact or
\* with some bits inverted.
CryptoCiphertexts ==
    {[AESGCM_encrypt(k, n, plaintext, aad) EXCEPT !.delta = d] :
        k \in CryptoKeys,
        n \in {urandom(AES_GCM_NONCE_BYTES, v) : v \in 1..2},
        plaintext \in {_canonical_json(obj) : obj \in CryptoObjects} \cup {NotUtf8, NotJson},
        aad \in {AES_GCM_AAD, "local-vault-backup-v1"},
        d \in SUBSET (1..MaxBit)}
DecryptCalls ==
    [enc_key : CryptoKeys \cup {ShortKey}, nonce : CryptoNonces,
     ciphertext : CryptoCiphertexts]

InitCrypto ==
    /\ InitStore
    /\ call \in DecryptCalls
    /\ returned = <<>>

\* encrypt_json(key, obj): its result becomes the arguments of a decryption
\* under the same key.
Encrypt ==
    \E k \in CryptoKeys, obj \in CryptoObjects :
        LET encrypted == encrypt_json(k, obj, fresh_nonce(1))
        IN /\ drawn < MaxDraws
           /\ encrypted.ok
           /\ call' = [enc_key |-> k, nonce |-> encrypted.nonce,
                       ciphertext |-> encrypted.ciphertext]
           /\ returned' = <<>>
           /\ drawn' = drawn + 1
           /\ UNCHANGED <<now, store, audit, sessions, issued, created, request, response>>
\* One bit of the ciphertext is inverted before it is decrypted.
Flip ==
    \E i \in 1..MaxBit :
        /\ call' = [call EXCEPT !.ciphertext = flip_bit(@, i)]
        /\ returned' = <<>>
        /\ UNCHANGED <<now, store, audit, sessions, issued, created, drawn, request,
                       response>>
\* decrypt_json(enc_key, nonce, ciphertext)
Decrypt ==
    /\ returned = <<>>
    /\ returned' = <<decrypt_json(call.enc_key, call.nonce, call.ciphertext)>>
    /\ UNCHANGED <<now, store, audit, sessions, issued, created, drawn, request,
                   response, call>>

\* encrypt_json and decrypt_json on their own, over every combination of
\* arguments.
NextCrypto == Encrypt \/ Flip \/ Decrypt
SpecCrypto == InitCrypto /\ [][NextCrypto]_vars

\* Arguments of build_backup_envelope and load_backup_bundle: entries whose
\* updatedAt is UTC, naive, or has another offset; export passwords absent,
\* empty, long enough for Argon2 key derivation, and shorter than that.
BackupEntries ==
    {Entry(1, CreatePayload, utc(0)),
     Entry(ForeignId, UpdatePayload, datetime(5000, NULL)),
     Entry(ForeignId, UpdatePayload, datetime(5000, 0 - 18000))}
BackupLists ==
    {<<>>} \cup {<<e>> : e \in BackupEntries}
    \cup {<<a, b>> : a \in BackupEntries, b \in BackupEntries}
DefaultSettings == SettingsModel(_load_settings(<<>>)[1])
ExportPasswords == {<<>>, <<"">>, <<BackupPassword>>, <<"short">>}
ImportPasswords == ExportPasswords \cup {<<"another-backup-password">>}
BuildCalls ==
    {[fn |-> "build", entries |-> l, settings |-> s, key |-> k, password |-> pw] :
        l \in BackupLists, s \in {ElsewhereSettings, DefaultSettings},
        k \in CryptoKeys, pw \in ExportPasswords}

\* Envelopes as a file may hold them: an exported one with kdfParams and
\* salt present or absent in every combination, parameters Argon2 refuses,
\* a salt that is not base64 and one of 8 bytes.
WeakParams == [memoryCost |-> 1, timeCost |-> 1, parallelism |-> 1]
ExportedEnvelopes ==
    {build_backup_envelope(<<Entry(1, CreatePayload, utc(0))>>, DefaultSettings, k, pw,
                           generate_argon2_salt(1), urandom(AES_GCM_NONCE_BYTES, 1),
                           0).envelope :
        k \in CryptoKeys, pw \in {<<>>, <<BackupPassword>>}}
NotBase64 == [valid |-> FALSE, data |-> <<>>]
FileEnvelopes ==
    {[e EXCEPT !.kdfParams = kp, !.salt = s] :
        e \in ExportedEnvelopes,
        kp \in {<<>>, <<WeakParams>>,
                <<[memoryCost |-> DEFAULT_ARGON2_PARAMS.memory_cost,
                   timeCost |-> DEFAULT_ARGON2_PARAMS.time_cost,
                   parallelism |-> DEFAULT_ARGON2_PARAMS.parallelism]>>},
        s \in {<<>>, <<NotBase64>>, <<_b64encode(generate_argon2_salt(1))>>,
               <<_b64encode(urandom(8, 1))>>}}
LoadCalls ==
    {[fn |-> "load", envelope |-> e, key |-> k, password |-> pw, source |-> <<>>] :
        e \in FileEnvelopes, k \in CryptoKeys, pw \in ImportPasswords}

InitBackup ==
    /\ InitStore
    /\ call \in BuildCalls \cup LoadCalls
    /\ returned = <<>>

\* build_backup_envelope(entries, settings, session_enc_key, export_password)
Build ==
    /\ call.fn = "build" /\ returned = <<>>
    /\ drawn < MaxDraws
    /\ LET built == build_backup_envelope(call.entries, call.settings, call.key,
                                          call.password, generate_argon2_salt(1),
                                          fresh_nonce(1), now)
       IN /\ returned' = <<built>>
          /\ drawn' = IF built.ok THEN drawn + 1 ELSE drawn
    /\ UNCHANGED <<now, store, audit, sessions, issued, created, request, response, call>>
\* The envelope built is handed to load_backup_bundle with some session key
\* and import password.
Reload ==
    /\ call.fn = "build" /\ returned # <<>> /\ returned[1].ok
    /\ \E k \in CryptoKeys, pw \in ImportPasswords :
          call' = [fn |-> "load", envelope |-> returned[1].envelope, key |-> k,
                   password |-> pw, source |-> <<call>>]
    /\ returned' = <<>>
    /\ UNCHANGED <<now, store, audit, sessions, issued, created, drawn, request, response>>
\* load_backup_bundle(envelope, session_enc_key, import_password)
Load ==
    /\ call.fn = "load" /\ returned = <<>>
    /\ returned' = <<load_backup_bundle(call.envelope, call.key, call.password)>>
    /\ UNCHANGED <<now, store, audit, sessions, issued, created, drawn, request, response,
                   call>>

\* build_backup_envelope and load_backup_bundle on their own.
NextBackup == Build \/ Reload \/ Load
SpecBackup == InitBackup /\ [][NextBackup]_vars

\* Export passwords that pass BackupExportRequest (absent, or 1 to 128
\* characters after stripping): one long enough for key derivation, one not.
AcceptedExportPasswords == {<<>>, <<BackupPassword>>, <<"short">>}
ExportBackup ==
    \E req \in LiveRequest("POST", "/backup/export"), pw \in AcceptedExportPasswords :
        export_backup(req, pw, generate_argon2_salt(1))

\* Exports by a client with a live session, of an empty and a filled store.
NextExport == Install \/ Login \/ SeedEntry \/ SeedSettings \/ ExportBackup
SpecExport == Init /\ [][NextExport]_vars

\* Backup files a client may upload to the import routes.  Bundles made
\* elsewhere under BackupPassword: one or two entries, of the stored id or
\* another, with a timestamp in UTC, without timezone, or with an offset of
\* -05:00; the same id may be listed twice.
ImportStamps == {utc(0), utc(5000), datetime(5000, NULL), datetime(5000, 0 - 18000)}
ImportEntries == {Entry(id, UpdatePayload, stamp) : id \in {1, ForeignId}, stamp \in ImportStamps}
ImportBundles ==
    {<<>>} \cup {<<e>> : e \in ImportEntries}
    \cup {<<Entry(id, UpdatePayload, utc(5000)), Entry(id, UpdatePayload, utc(5000))>> :
            id \in {1, ForeignId}}
    \cup {<<Entry(1, UpdatePayload, utc(5000)), Entry(ForeignId, UpdatePayload, utc(0))>>}
\* The envelope of a file with other key-derivation fields.
WithKdf(raw_bytes, kdfParams, salt) ==
    [raw_bytes EXCEPT !.value.kdfParams = kdfParams, !.value.salt = salt]
\* Files that are no backup of anything: not JSON, not UTF-8, and envelopes
\* whose kdfParams or salt were changed.
BrokenFiles ==
    LET file == ElsewhereFile(<<Entry(ForeignId, UpdatePayload, utc(5000))>>)
    IN {NotJson, NotUtf8,
        WithKdf(file, <<>>, file.value.salt),
        WithKdf(file, file.value.kdfParams, <<NotBase64>>),
        WithKdf(file, file.value.kdfParams, <<_b64encode(urandom(8, 1))>>),
        WithKdf(file, <<WeakParams>>, file.value.salt),
        WithKdf(file, <<[WeakParams EXCEPT !.memoryCost = 0]>>, file.value.salt)}
ImportUploads ==
    {Upload(JsonName, ElsewhereFile(b), <<BackupPassword>>) : b \in ImportBundles}
    \cup {Upload(JsonName, f, <<BackupPassword>>) : f \in BrokenFiles}
    \cup {Upload(JsonName, ElsewhereFile(<<Entry(ForeignId, UpdatePayload, utc(5000))>>), pw) :
            pw \in {<<>>, <<"">>, <<"another-backup-password">>, <<"short">>}}
    \cup {Upload(name, ElsewhereFile(<<Entry(ForeignId, UpdatePayload, utc(5000))>>),
                 <<BackupPassword>>) : name \in {TextName, <<>>}}
    \cup {Upload(JsonName, f, <<>>) : f \in OwnFiles}

\* The owner unlocks once and works in that session.
LoginOnce == issued = 0 /\ Login
PreviewUpload ==
    \E req \in LiveRequest("POST", "/backup/import/preview"), up \in ImportUploads :
        preview_import_backup(req, up.file, up.password)
\* Apply is driven with every bundle and one upload for each way in which
\* a file is refused.
ApplyUploads ==
    {up \in ImportUploads :
        /\ up.file.filename # <<>>
        /\ up.password \notin {<<"">>, <<"short">>}
        /\ up.file.raw_bytes # NotUtf8
        /\ up.file.raw_bytes.json
           => /\ up.file.raw_bytes.value.salt \notin {<<NotBase64>>}
              /\ up.file.raw_bytes.value.kdfParams
                    # <<[WeakParams EXCEPT !.memoryCost = 0]>>}
ApplyUpload ==
    \E req \in LiveRequest("POST", "/backup/import/apply"), up \in ApplyUploads :
        apply_import_backup(req, up.file, up.password)

\* Import preview by a client with a live session, over an empty store,
\* one that holds a created entry, and one that holds a restored entry.
NextPreview == Install \/ LoginOnce \/ SeedEntry \/ RestoreBackup \/ PreviewUpload
SpecPreview == Init /\ [][NextPreview]_vars

\* Import apply by a client with a live session, over an empty store and
\* one that holds an entry, each file possibly applied again.
NextApply == Install \/ LoginOnce \/ SeedEntry \/ ApplyUpload
SpecApply == Init /\ [][NextApply]_vars

\* Meta arguments of the sanitizers: None, the empty dict, and dicts of one
\* or two items whose keys are clean, forbidden in lower case or forbidden
\* only once lowered, and whose values are of every JSON type.
MetaKeys ==
    {KeyChars.reason, KeyChars.count,
     <<"P", "a", "s", "s", "w", "o", "r", "d">>,
     <<"a", "p", "i", "K", "E", "Y">>,
     <<"m", "a", "s", "t", "e", "r", "_", "h", "i", "n", "t">>}
MetaKinds == {"bool", "str", "int", "float", "NoneType", "list", "dict"}
MetaItems == {KV(k, kind, 0) : k \in MetaKeys, kind \in MetaKinds}
MetaDicts ==
    {<<>>} \cup {<<a>> : a \in MetaItems}
    \cup {pair \in {<<a, b>> : a \in MetaItems, b \in MetaItems} : pair[1].key # pair[2].key}
MetaInputs == {<<>>} \cup {<<d>> : d \in MetaDicts}
SanitizeCalls == {[fn |-> f, meta |-> m] : f \in {"write", "read"}, m \in MetaInputs}

InitSanitize ==
    /\ InitStore
    /\ call \in SanitizeCalls
    /\ returned = <<>>

\* audit._sanitize_meta(meta), as write_audit_event calls it
SanitizeWrite ==
    /\ call.fn = "write" /\ returned = <<>>
    /\ returned' = <<_sanitize_meta(call.meta)>>
    /\ UNCHANGED <<now, store, audit, sessions, issued, created, drawn, request, response,
                   call>>
\* routes/audit._sanitize_meta(row.meta), as list_audit calls it
SanitizeRead ==
    /\ call.fn = "read" /\ returned = <<>>
    /\ returned' = <<audit_sanitize_meta(call.meta)>>
    /\ UNCHANGED <<now, store, audit, sessions, issued, created, drawn, request, response,
                   call>>

\* The two meta sanitizers on their own.
NextSanitize == SanitizeWrite \/ SanitizeRead
SpecSanitize == InitSanitize /\ [][NextSanitize]_vars

\* A row of the audit table as something other than write_audit_event may
\* have left it (models.py AuditRecord: meta is a JSON column without a
\* constraint on its keys or values).
ForeignAuditRow ==
    [type |-> "VAULT_UNLOCK", outcome |-> "FAILURE",
     meta |-> <<<<KV(<<"P", "a", "s", "s", "w", "o", "r", "d">>, "str", "wrong-password-1"),
                  KV(KeyChars.reason, "NoneType", 0)>>>>]
\* What the SELECT of list_audit returns: the rows the latest request
\* committed, alone or after such a row.
AuditTables == {audit, <<ForeignAuditRow>> \o audit}
ListAudit ==
    \E req \in SessionRequest("GET", "/audit"), rows \in AuditTables : list_audit(req, rows)

\* Every route that writes an audit event with a meta, and the audit log
\* read after each.
NextAudit ==
    \/ Setup \/ Unlock \/ LockSession \/ SeedEntry \/ ReadEntry \/ ExportBackup
    \/ ListAudit
SpecAudit == Init /\ [][NextAudit]_vars

\* Settings bodies at and beyond each limit of SettingsModel.
SettingsBodies ==
    {[autoLockMinutes |-> a, clipboardClearSeconds |-> c, requireReauthForCopy |-> FALSE] :
        a \in {0, 1, 120, 121}, c \in {4, 5, 120, 121}}
\* A backup file made elsewhere under BackupPassword whose bundle, without
\* entries, carries the given settings object.
SettingsFile(bundle_settings) ==
    LET file == ElsewhereFile(<<>>)
        backup_key == derive_backup_key(
                         derive_master_key_raw(BackupPassword, generate_argon2_salt(1),
                                               DEFAULT_ARGON2_PARAMS).key)
        obj == [BackupBundle_model_dump(BackupBundle(<<>>, ElsewhereSettings, utc(5000)))
                  EXCEPT !.settings = bundle_settings]
        encrypted == encrypt_json(backup_key, obj, urandom(AES_GCM_NONCE_BYTES, 1))
    IN [file EXCEPT !.value.export.ciphertext = _b64encode(encrypted.ciphertext)]
GetSettings == \E req \in SessionRequest("GET", "/settings") : get_settings(req)
PutSettings ==
    \E req \in SessionRequest("PUT", "/settings"), payload \in SettingsBodies :
        update_settings(req, payload)
ApplySettings ==
    \E req \in LiveRequest("POST", "/backup/import/apply"), payload \in SettingsBodies :
        apply_import_backup(req, [filename |-> JsonName, raw_bytes |-> SettingsFile(payload)],
                            <<BackupPassword>>)

\* The settings row under setup, GET, PUT and import apply, by clients with
\* a live session and one whose session was locked.
NextSettings == Install \/ Login \/ LockSession \/ GetSettings \/ PutSettings \/ ApplySettings
SpecSettings == Init /\ [][NextSettings]_vars

\* Requests of a client with a live session whose commit fails.
CreateCommitFails ==
    \E req \in LiveRequest("POST", "/entries") : create_entry_commit_error(req, CreatePayload)
UpdateCommitFails ==
    \E id \in KnownIds :
        \E req \in LiveRequest("PUT", "/entries/" \o uuid_str(id)) :
            update_entry_commit_error(req, id, UpdatePayload)
DeleteCommitFails ==
    \E id \in KnownIds :
        \E req \in LiveRequest("DELETE", "/entries/" \o uuid_str(id)) :
            delete_entry_commit_error(req, id)
SettingsCommitFails ==
    \E req \in LiveRequest("PUT", "/settings") :
        update_settings_commit_error(req, SettingsPayload)

\* Writes of entries and settings by a client with a live session, each
\* commit succeeding or failing.
NextCommit ==
    \/ Install \/ LoginOnce \/ SeedEntry \/ ChangeEntry \/ RemoveEntry \/ SeedSettings
    \/ CreateCommitFails \/ UpdateCommitFails \/ DeleteCommitFails \/ SettingsCommitFails
SpecCommit == Init /\ [][NextCommit]_vars

\* Unlock requests served by worker threads at the same time.
Threads == 1..MaxThreads
UnlockRead == \E thread \in Threads, pw \in Passwords : vault_unlock_read(thread, pw)
UnlockWrite == \E thread \in Threads : vault_unlock_write(thread)

\* Concurrent unlock attempts after setup, the clock moving from one
\* back-off deadline to the next.
NextRace == Install \/ UnlockRead \/ UnlockWrite \/ TickThrottle
SpecRace == Init /\ [][NextRace]_vars

\* State-changing requests of clients that have unlocked, each served by a
\* worker thread in two steps, while other requests lock sessions and the
\* clock passes the idle deadlines.
GateSettings ==
    \E thread \in Threads, req \in SessionRequest("PUT", "/settings") :
        gate_passes(thread, WithBody(req, SettingsPayload))
GateDelete ==
    \E thread \in Threads :
        \E req \in SessionRequest("DELETE", "/entries/" \o uuid_str(1)) :
            gate_passes(thread, req)
HandleSettings == \E thread \in Threads : update_settings_handler(thread)
HandleDelete == \E thread \in Threads : delete_entry_handler(thread, 1)
NextRegistry ==
    \/ Install \/ LoginOnce \/ SeedEntry \/ LockSession \/ TickIdle \/ Status
    \/ GateSettings \/ GateDelete \/ HandleSettings \/ HandleDelete
SpecRegistry == Init /\ [][NextRegistry]_vars

\* The process stops and starts again: the new process imports sessions.py,
\* which builds an empty registry, and opens the database file as it is
\* (main.py: the lifespan hook does nothing).  Requests in progress are
\* lost; as in Init, the new process has answered GET /health.
Restart ==
    /\ sessions' = SessionStore(idle_timeout)
    /\ call' = <<>>
    /\ request' = Request("GET", "/health", "", "", "")
    /\ response' = [Response(200, "", TRUE) EXCEPT !.body = "ok"]
    /\ UNCHANGED <<now, store, audit, issued, created, drawn, returned>>

\* Setup, unlock attempts up to MaxFailures failures, status and gated
\* requests of clients that have unlocked, the clock moving to the back-off
\* deadlines, and restarts of the process.
UnlockFew ==
    /\ throttle # <<>>
       => is_throttled(throttle[1], now) \/ throttle[1].failed_attempts < MaxFailures
    /\ Unlock
StatusSession ==
    \E req \in SessionRequest("GET", "/vault/status") : vault_status(req)
ProbeSession ==
    \E req \in SessionRequest("POST", "/_internal/csrf-probe") : csrf_probe(req)
NextRestart == Install \/ UnlockFew \/ StatusSession \/ ProbeSession \/ TickThrottle \/ Restart
SpecRestart == Init /\ [][NextRestart]_vars

\* Two clients unlock, use the entry service and lock, in any order.
NextSessions ==
    \/ Install \/ Login \/ LockSession \/ StatusSession
    \/ SeedEntry \/ ReadEntry \/ ChangeEntry
SpecSessions == Init /\ [][NextSessions]_vars

\* Create, update and import apply by a client with a live session.
NextColumn == Install \/ LoginOnce \/ SeedEntry \/ ChangeEntry \/ ApplyUpload
SpecColumn == Init /\ [][NextColumn]_vars

\* A delete of a created entry under every combination of cookies and
\* header, and a listing under every session cookie, while the clock moves
\* from one idle deadline to the next.
DeleteAny ==
    \E id \in 1..created :
        \E req \in AnyRequest("DELETE", "/entries/" \o uuid_str(id)) : delete_entry(req, id)
ListAny ==
    \E st \in SessionCookies : list_entries(Request("GET", "/entries", st, "", ""))
NextFrame == Install \/ Login \/ SeedEntry \/ TickIdle \/ DeleteAny \/ ListAny
SpecFrame == Init /\ [][NextFrame]_vars

\* ================================================================ claims
\* A step that serves a request: the clock stands still.
RequestStep == now' = now

\* The token names a session of the registry that has not idled out.
Live(token) ==
    /\ token \in DOMAIN sessions
    /\ now - sessions[token].last_seen <= idle_timeout

\* ------------------------------------------------------------------- C1
\* C1: a POST, PUT, DELETE or PATCH request on a non-exempt path is passed
\* on to the application if and only if its session cookie names a live
\* session and its CSRF cookie and X-CSRF-Token header are both present,
\* equal, and equal to that session's csrf_token; without a live session the
\* answer is 401 UNAUTHORIZED whatever the CSRF values are, and otherwise a
\* missing or mismatching CSRF value is answered 403 CSRF_INVALID.
C1_GateContract ==
    [][(/\ RequestStep
        /\ request'.method \in {"POST", "PUT", "DELETE", "PATCH"}
        /\ request'.path \in {"/_internal/csrf-probe", "/vault/lock"})
       => LET r == request'
              live == r.session_token # "" /\ Live(r.session_token)
              csrf_ok == /\ r.csrf_cookie # "" /\ r.csrf_header # ""
                         /\ r.csrf_cookie = r.csrf_header
                         /\ r.csrf_header = sessions[r.session_token].csrf_token
          IN /\ response'.handled <=> (live /\ csrf_ok)
             /\ ~live => response'.status = 401 /\ response'.code = "UNAUTHORIZED"
             /\ (live /\ ~csrf_ok) =>
                   response'.status = 403 /\ response'.code = "CSRF_INVALID"]_vars

\* A probe that presented the cookies and header of a live session ran.
C1_Witness ==
    /\ request.path = "/_internal/csrf-probe" /\ request.method = "POST"
    /\ request.session_token \in DOMAIN sessions
    /\ request.csrf_header = sessions[request.session_token].csrf_token
    /\ response.handled /\ response.status = 200

\* ------------------------------------------------------------------- C2
\* The request of this step is an unlock attempt with a well-formed payload.
UnlockStep == RequestStep /\ request'.path = "/vault/unlock"

\* The back-off set by an earlier failure has not elapsed yet.
BackOffPending ==
    /\ throttle # <<>>
    /\ throttle[1].next_allowed_at # NULL
    /\ now < throttle[1].next_allowed_at

\* The submitted password is the one the vault was set up with.
RightPassword(pw) ==
    metadata # <<>> /\ metadata[1].pw_verifier = "$argon2id$" \o pw

FailedBefore == IF throttle = <<>> THEN 0 ELSE throttle[1].failed_attempts

\* An unlock attempt that gets as far as verification and fails it.
VerifiedFailureStep ==
    /\ UnlockStep
    /\ metadata # <<>>
    /\ ~BackOffPending
    /\ ~RightPassword(request'.body.masterPassword)

\* The delays in seconds, written out.
LadderTable == <<2, 4, 8, 16, 32, 64, 128, 256>>
LadderComputed(n) == IF n <= 8 THEN LadderTable[n] ELSE 256
LadderClaimed(n) == IF n <= 8 THEN LadderTable[n] ELSE IF n = 9 THEN 256 ELSE 300

FailureOutcome(Ladder(_)) ==
    /\ response'.status = 401 /\ response'.code = "UNAUTHORIZED"
    /\ response'.verified
    /\ sessions' = sessions
    /\ throttle'[1].failed_attempts = FailedBefore + 1
    /\ throttle'[1].next_allowed_at = now + Ladder(FailedBefore + 1)

C4_ThrottleRowShape ==
    throttle # <<>> =>
        /\ throttle[1].failed_attempts >= 0
        /\ (throttle[1].failed_attempts = 0) <=> (throttle[1].next_allowed_at = NULL)

\* A successful unlock has cleared a row that earlier failures had set.
C4_Witness ==
    /\ request.path = "/vault/unlock"
    /\ response.status = 200
    /\ now > 0
    /\ throttle[1].failed_attempts = 0
    /\ throttle[1].next_allowed_at = NULL

\* ------------------------------------------------------------------- C5
\* An unlock attempt that is not throttled and carries the right password.
VerifiedSuccessStep ==
    /\ UnlockStep
    /\ ~BackOffPending
    /\ RightPassword(request'.body.masterPassword)

StatusAt(md, reg, t, cookie) ==
    IF md = <<>> THEN "NO_VAULT"
    ELSE IF /\ cookie # "" /\ cookie \in DOMAIN reg
            /\ t - reg[cookie].last_seen <= idle_timeout THEN "UNLOCKED"
    ELSE "LOCKED"
StatusOf(cookie) == StatusAt(metadata, sessions, now, cookie)
StatusAfter(cookie) == StatusAt(metadata', sessions', now', cookie)

\* C6: GET /vault/status answers NO_VAULT exactly when no verifier is
\* stored, otherwise UNLOCKED exactly when the presented cookie names a live
\* session, otherwise LOCKED.  The status is NO_VAULT at the start; a
\* successful setup takes it from NO_VAULT to LOCKED for every cookie, a
\* successful unlock makes it UNLOCKED for the cookie it sets, and a lock
\* makes it LOCKED for the cookie that was locked.
C6_StatusLifecycle ==
    /\ StatusOf("") = "NO_VAULT"
    /\ [][RequestStep =>
            /\ request'.path = "/vault/status"
                  => /\ response'.status = 200
                     /\ response'.body = StatusOf(request'.session_token)
            /\ (request'.path = "/vault/setup" /\ response'.status = 201)
                  => /\ StatusOf("") = "NO_VAULT"
                     /\ \A c \in SessionCookies : StatusAfter(c) = "LOCKED"
            /\ (request'.path = "/vault/unlock" /\ response'.status = 200)
                  => StatusAfter(response'.set_cookie[1]) = "UNLOCKED"
            /\ (request'.path = "/vault/lock" /\ response'.status = 204)
                  => /\ StatusOf(request'.session_token) = "UNLOCKED"
                     /\ StatusAfter(request'.session_token) = "LOCKED"]_vars

\* A status query with the cookie of a live session was told UNLOCKED.
C6_Witness ==
    /\ request.path = "/vault/status"
    /\ request.session_token \in DOMAIN sessions
    /\ response.body = "UNLOCKED"

\* ------------------------------------------------------------------- C7
\* The request of this step is a lock request.
LockStep == RequestStep /\ request'.path = "/vault/lock" /\ request'.method = "POST"

\* The registry without one token.
Without(reg, token) == [k \in DOMAIN reg \ {token} |-> reg[k]]

\* The CSRF cookie and header of the request are the session's csrf_token.
CsrfAnchored(r) ==
    /\ r.csrf_cookie # "" /\ r.csrf_header # ""
    /\ r.csrf_cookie = r.csrf_header
    /\ r.csrf_header = sessions[r.session_token].csrf_token

\* C7 (as the code has it): POST /vault/lock is behind the request gate.
\* With a live session and its CSRF token in cookie and header it answers
\* 204, destroys that session and no other, clears both cookies and records
\* VAULT_LOCK SUCCESS.  Without a live session it answers 401, and with a
\* live session but a missing or wrong CSRF value 403; then no cookie is
\* cleared, no audit event is recorded and no live session is destroyed.  The
\* stored records are never changed.
C7_LockBehindGate ==
    [][LockStep =>
         LET r == request'
             live == r.session_token # "" /\ Live(r.session_token)
         IN /\ store' = store
            /\ (live /\ CsrfAnchored(r)) =>
                  /\ response'.status = 204
                  /\ response'.set_cookie = <<"", "">>
                  /\ Len(audit') = 1
                  /\ audit'[1].type = "VAULT_LOCK" /\ audit'[1].outcome = "SUCCESS"
                  /\ DOMAIN sessions' = DOMAIN sessions \ {r.session_token}
                  /\ \A k \in DOMAIN sessions' : sessions'[k] = sessions[k]
            /\ ~live =>
                  /\ response'.status = 401 /\ response'.code = "UNAUTHORIZED"
                  /\ response'.set_cookie = <<>>
                  /\ audit' = <<>>
                  /\ sessions' = Without(sessions, r.session_token)
            /\ (live /\ ~CsrfAnchored(r)) =>
                  /\ response'.status = 403 /\ response'.code = "CSRF_INVALID"
                  /\ response'.set_cookie = <<>>
                  /\ audit' = <<>>
                  /\ DOMAIN sessions' = DOMAIN sessions]_vars

\* C7 as stated: every lock request answers 204, clears both cookies,
\* records VAULT_LOCK SUCCESS and leaves no session under the presented token.
C7_LockAlwaysSucceeds ==
    [][LockStep =>
         /\ response'.status = 204
         /\ response'.set_cookie = <<"", "">>
         /\ Len(audit') = 1
         /\ audit'[1].type = "VAULT_LOCK" /\ audit'[1].outcome = "SUCCESS"
         /\ request'.session_token \notin DOMAIN sessions']_vars

\* One of two sessions was locked; the other is still registered.
C7_Witness ==
    /\ request.path = "/vault/lock"
    /\ response.status = 204
    /\ request.session_token \notin DOMAIN sessions
    /\ issued = 2
    /\ Cardinality(DOMAIN sessions) = 1

\* ------------------------------------------------------------------- C8
\* The session under this token was seen within the idle timeout.
WithinIdle(token) == now - sessions[token].last_seen <= idle_timeout

\* C8: a lookup returns the session exactly when the token is registered and
\* now - last_seen <= idle_timeout, and removes it when the timeout has
\* passed.  The gate's lookup (get) sets last_seen to now and nothing else;
\* the status query's lookup (peek) changes nothing, so polling status never
\* extends a session's life.
C8_LookupSemantics ==
    [][RequestStep =>
         LET r == request'
             token == r.session_token
             registered == token # "" /\ token \in DOMAIN sessions
         IN /\ (r.path = "/vault/status" /\ metadata # <<>>) =>
                  /\ (registered /\ WithinIdle(token)) =>
                        response'.body = "UNLOCKED" /\ sessions' = sessions
                  /\ (registered /\ ~WithinIdle(token)) =>
                        response'.body = "LOCKED" /\ sessions' = Without(sessions, token)
                  /\ ~registered =>
                        response'.body = "LOCKED" /\ sessions' = sessions
            /\ (r.path \in {"/_internal/csrf-probe", "/vault/lock"} /\ r.method = "POST") =>
                  /\ (registered /\ WithinIdle(token)) =>
                        /\ response'.status # 401
                        /\ token \in DOMAIN sessions' =>
                              sessions' = [sessions EXCEPT ![token].last_seen = now]
                  /\ (registered /\ ~WithinIdle(token)) =>
                        response'.status = 401 /\ sessions' = Without(sessions, token)
                  /\ ~registered =>
                        response'.status = 401 /\ sessions' = sessions]_vars

\* A session polled past its idle timeout was evicted by the status query,
\* while one used later is still registered.
C8_Witness ==
    /\ request.path = "/vault/status"
    /\ response.body = "LOCKED"
    /\ request.session_token # ""
    /\ request.session_token \notin DOMAIN sessions
    /\ now > idle_timeout
    /\ \E k \in DOMAIN sessions : sessions[k].last_seen > sessions[k].created_at

\* ------------------------------------------------------------------- C9
\* The Entry a row decrypts to under a key (ok = FALSE when it does not).
Opened(row, key) ==
    LET payload == decrypt_json(key, row.nonce, row.ciphertext)
    IN IF payload.ok THEN Entry_model_validate(payload.value) ELSE [ok |-> FALSE]

\* Every row of the table opens under the key of every session of the
\* registry to a well-formed Entry whose id is the record key.
RecordsOpen(table, reg) ==
    \A token \in DOMAIN reg, k \in DOMAIN table :
        /\ Opened(table[k], reg[token].enc_key).ok
        /\ uuid_str(Opened(table[k], reg[token].enc_key).entry.id) = k
        /\ table[k].id = k

\* The entries of the backup file the request uploaded.
UploadedEntries(req, key) ==
    LET bundle == load_backup_bundle(parse_backup_json(req.body.file.raw_bytes).envelope,
                                     key, req.body.password).bundle.entries
    IN {bundle[i] : i \in DOMAIN bundle}

\* The row under k was written by the request of this step, and opens to
\* the Entry that request wrote: the one returned by create or update (made
\* of the request's fields, the record key and the time of the request), or
\* an entry of the uploaded bundle.
WrittenNow(k, key) ==
    LET entry == Opened(entries'[k], key).entry
    IN \/ /\ request'.method = "POST" /\ request'.path = "/entries"
          /\ response'.status = 201
          /\ response'.body = entry
          /\ k \notin DOMAIN entries
          /\ entry = Entry(uuid_parse(k), request'.body, utc(now))
       \/ /\ request'.method = "PUT" /\ request'.path = "/entries/" \o k
          /\ response'.status = 200
          /\ response'.body = entry
          /\ entry = Entry(uuid_parse(k), request'.body, utc(now))
       \/ /\ request'.path = "/backup/import/apply"
          /\ response'.status = 200
          /\ entry \in UploadedEntries(request', key)
          /\ entries'[k].updated_at = sqlite_datetime(entry.updatedAt)

\* C9: after any sequence of create, update, delete and import apply made
\* through sessions obtained by unlock, every stored entry record decrypts
\* under the encryption key of every live session to a well-formed Entry
\* whose id is the record key, and that Entry is the one last written for
\* the id: a step either leaves a record as it was or stores the Entry its
\* request wrote.  All sessions carry the same encryption key.
C9_StoredEntriesDecrypt ==
    [][/\ RecordsOpen(entries', sessions')
       /\ \A t1, t2 \in DOMAIN sessions' : sessions'[t1].enc_key = sessions'[t2].enc_key
       /\ \A k \in DOMAIN entries' :
            \/ k \in DOMAIN entries /\ entries'[k] = entries[k]
            \/ \A token \in DOMAIN sessions' : WrittenNow(k, sessions'[token].enc_key)]_vars

\* Two sessions are live; the store holds a created entry that was updated
\* and an entry that an import has just added, each under its own nonce.
C9_Witness ==
    /\ Cardinality(DOMAIN sessions) = 2
    /\ request.path = "/backup/import/apply"
    /\ response.status = 200
    /\ response.body.added = 1
    /\ DOMAIN entries = {uuid_str(1), uuid_str(ForeignId)}
    /\ Opened(entries[uuid_str(1)], sessions[token_urlsafe(2)].enc_key).entry.title = "gitlab"
    /\ entries[uuid_str(1)].nonce # entries[uuid_str(ForeignId)].nonce

\* ------------------------------------------------------------------ C10
\* The paths of the entry service, settings, audit and backup.
ProtectedPaths ==
    {"/entries", "/settings", "/audit", "/backup/export",
     "/backup/import/preview", "/backup/import/apply"}
    \cup {"/entries/" \o uuid_str(u) : u \in UUIDs}

\* C10: a well-formed request to any entries, settings, audit or backup
\* operation, read or write, that carries no session cookie or one naming no
\* live session is answered 401 UNAUTHORIZED and changes no entry and no
\* settings record, whether no vault exists, the vault is locked, or the
\* session was locked or evicted for idleness.
C10_ProtectedRoutesNeedSession ==
    [][(/\ RequestStep
        /\ request'.path \in ProtectedPaths
        /\ ~(request'.session_token # "" /\ Live(request'.session_token)))
       => /\ response'.status = 401
          /\ response'.code = "UNAUTHORIZED"
          /\ entries' = entries
          /\ settings' = settings]_vars

\* A read with the cookie of a session that idled out was refused while the
\* store held an entry and changed settings.
C10_Witness ==
    /\ request.method = "GET" /\ request.path = "/entries"
    /\ request.session_token \notin {"", "forged"}
    /\ request.session_token \notin DOMAIN sessions
    /\ now > idle_timeout
    /\ response.status = 401
    /\ DOMAIN entries # {}
    /\ settings # <<>> /\ settings[1].auto_lock_minutes = 10

\* ------------------------------------------------------------------ C11
\* C11: every HTTP response carries the four security headers
\* X-Content-Type-Options: nosniff, Referrer-Policy: no-referrer,
\* Cache-Control: no-store and Permissions-Policy: geolocation=(),
\* microphone=(), camera=(), the 401 and 403 responses of the CSRF/session
\* gate and all error responses included.
C11_EveryResponseHasSecurityHeaders == response.headers = SECURITY_HEADERS

\* What the stack does: the responses the gate sends itself carry none of
\* the four headers, every response of the application inside it all four.
C11_HeadersOnlyInsideGate ==
    response.headers = IF response.handled THEN SECURITY_HEADERS ELSE {}

\* The gate refused a request of a live session for its CSRF token, and the
\* 403 went out without the security headers.
C11_Witness ==
    /\ request.method = "POST" /\ request.path = "/_internal/csrf-probe"
    /\ request.session_token \in DOMAIN sessions
    /\ response.status = 403 /\ response.code = "CSRF_INVALID"
    /\ response.headers = {}

\* ------------------------------------------------------------------ C12
\* The paths the claim names exempt: vault setup, vault unlock, the health
\* probe and the documentation endpoints.
C12_ExemptPaths ==
    {"/vault/setup", "/vault/unlock", "/health",
     "/openapi.json", "/docs", "/docs/oauth2-redirect", "/redoc"}
\* Paths that are not exempt, /vault/lock and the backup imports among them.
C12_GatedPaths ==
    {"/vault/lock", "/backup/import/preview", "/backup/import/apply",
     "/backup/export", "/entries", "/settings", "/_internal/csrf-probe"}
C12_Methods == {"OPTIONS", "GET", "HEAD", "POST", "PUT", "DELETE", "PATCH"}

\* C12: for OPTIONS, GET and HEAD requests and for any request to an exempt
\* path (vault setup, vault unlock, health probe, documentation endpoints)
\* the request gate applies no session or CSRF check and leaves the session
\* registry untouched; every other POST/PUT/DELETE/PATCH path, /vault/lock and
\* the backup import endpoints included, is gated: it passes only with a live
\* session and that session's CSRF token in cookie and header, and is
\* refused 401 or 403 otherwise.
C12_GateScope ==
    \A m \in C12_Methods, p \in C12_ExemptPaths \cup C12_GatedPaths :
        \A st \in SessionCookies, cc \in CsrfValues : \A ch \in {"", cc} :
            LET req == Request(m, p, st, cc, ch)
                g == CSRFMiddleware(req, sessions, now)
            IN IF m \in {"OPTIONS", "GET", "HEAD"} \/ p \in C12_ExemptPaths
               THEN g.pass /\ g.response = <<>> /\ g.sessions = sessions
               ELSE /\ g.pass <=> (Live(st) /\ CsrfAnchored(req))
                    /\ ~g.pass => /\ g.response[1].status \in {401, 403}
                                  /\ ~g.response[1].handled

\* A GET carrying the cookie of a session that has idled out was passed on
\* and the registry still holds that session; a POST to the same path with
\* the same cookie is refused.
C12_Witness ==
    /\ request.method = "GET" /\ request.path = "/_internal/csrf-probe"
    /\ request.session_token \in DOMAIN sessions
    /\ now - sessions[request.session_token].last_seen > idle_timeout
    /\ response.handled
    /\ ~CSRFMiddleware([request EXCEPT !.method = "POST"], sessions, now).pass

\* ------------------------------------------------------------------ C13
\* C13: POST /vault/setup when a password verifier is already present fails
\* with 409 VAULT_EXISTS, commits one VAULT_SETUP FAILURE audit event with
\* reason already_initialized, and leaves the vault metadata (verifier,
\* salt, KDF parameters, hint), the settings, the throttle row, the entries
\* and the session registry unchanged.
C13_SetupConflict ==
    [][(/\ request'.method = "POST" /\ request'.path = "/vault/setup"
        /\ metadata # <<>> /\ metadata[1].pw_verifier # "")
       => /\ response'.status = 409 /\ response'.code = "VAULT_EXISTS"
          /\ audit' = <<[type |-> "VAULT_SETUP", outcome |-> "FAILURE",
                         meta |-> <<<<[key |-> <<"r", "e", "a", "s", "o", "n">>,
                                       kind |-> "str",
                                       val |-> "already_initialized"]>>>>]>>
          /\ metadata' = metadata
          /\ settings' = settings
          /\ throttle' = throttle
          /\ entries' = entries
          /\ sessions' = sessions]_vars

\* A second setup, with another password and hint, was refused while the
\* vault held an entry, changed settings, a live session and a throttle row
\* counting a failed unlock.
C13_Witness ==
    /\ request.path = "/vault/setup" /\ response.status = 409
    /\ ~verify_password(request.body.masterPassword, metadata[1].pw_verifier)
    /\ request.body.hint # metadata[1].hint
    /\ DOMAIN entries # {}
    /\ DOMAIN sessions # {}
    /\ throttle[1].failed_attempts = 1
    /\ settings[1].auto_lock_minutes = 10

\* ------------------------------------------------------------------ C14
\* The metadata table holds at most one row, and a row with a verifier has
\* its salt and its three KDF parameters.
C14_RowComplete(md) ==
    /\ Len(md) <= 1
    /\ (md # <<>> /\ md[1].pw_verifier # "")
         => /\ md[1].argon2_salt # NoSalt
            /\ md[1].argon2_salt.len = 16
            /\ md[1].argon2_memory_cost # NULL
            /\ md[1].argon2_time_cost # NULL
            /\ md[1].argon2_parallelism # NULL

\* C14: in every reachable state at most one vault metadata row exists and,
\* whenever pw_verifier is present, the salt and all three KDF parameters
\* are present too; once a setup has succeeded no later operation changes or
\* removes the verifier, salt or KDF parameters, so the status never returns
\* to NO_VAULT.
C14_MetadataStable ==
    [][/\ C14_RowComplete(metadata')
       /\ (metadata # <<>> /\ metadata[1].pw_verifier # "")
            => /\ metadata' # <<>>
               /\ metadata'[1].pw_verifier = metadata[1].pw_verifier
               /\ metadata'[1].argon2_salt = metadata[1].argon2_salt
               /\ metadata'[1].argon2_memory_cost = metadata[1].argon2_memory_cost
               /\ metadata'[1].argon2_time_cost = metadata[1].argon2_time_cost
               /\ metadata'[1].argon2_parallelism = metadata[1].argon2_parallelism
               /\ ~NoVerifier'
               /\ \A cookie \in SessionCookies : StatusAfter(cookie) # "NO_VAULT"]_vars

\* The vault set up with the second password has since seen a failed
\* unlock, an entry write and an import, and still holds the verifier and
\* salt of its setup.
C14_Witness ==
    /\ request.path = "/backup/import/apply" /\ response.status = 200
    /\ metadata # <<>>
    /\ metadata[1].pw_verifier = hash_password_verifier("wrong-password-1")
    /\ metadata[1].argon2_salt = urandom(16, 2)
    /\ throttle[1].failed_attempts = 1
    /\ Cardinality(DOMAIN entries) = 2

\* ------------------------------------------------------------------ C15
\* The record keys this step wrote: rows added or changed.
C15_Written ==
    {k \in DOMAIN entries' : k \notin DOMAIN entries \/ entries'[k] # entries[k]}

\* C15: every write of an entry record (create, update, import insert,
\* import update) stores a 12-byte nonce generated freshly for that write:
\* the nonce of the encryption that produced the stored ciphertext, never
\* drawn before, and different for every record the request writes.  An
\* update keeps the record key, replaces nonce and ciphertext, sets
\* updatedAt = now and never keeps the record's previous nonce.  Every nonce
\* stored so far having been drawn earlier, no two writes store the same
\* nonce.
C15_FreshNonces ==
    [][/\ drawn' >= drawn
       /\ \A k \in DOMAIN entries : entries[k].nonce.val <= drawn
       /\ \A k \in C15_Written :
            /\ entries'[k].nonce.len = 12
            /\ entries'[k].nonce.val > drawn /\ entries'[k].nonce.val <= drawn'
            /\ entries'[k].ciphertext.nonce = entries'[k].nonce
            /\ \A j \in C15_Written \ {k} : entries'[j].nonce # entries'[k].nonce
       /\ (request'.method = "PUT" /\ response'.status = 200)
            => \E k \in DOMAIN entries :
                 /\ request'.path = "/entries/" \o k
                 /\ DOMAIN entries' = DOMAIN entries
                 /\ C15_Written = {k}
                 /\ entries'[k].id = k
                 /\ entries'[k].nonce # entries[k].nonce
                 /\ entries'[k].ciphertext # entries[k].ciphertext
                 /\ entries'[k].updated_at = sqlite_datetime(utc(now))
                 /\ response'.body.updatedAt = utc(now)]_vars

\* An update has just replaced the nonce of a created entry with the third
\* nonce drawn, an import having stored the second.
C15_Witness ==
    /\ request.method = "PUT" /\ response.status = 200
    /\ request.path = "/entries/uuid-1"
    /\ entries[uuid_str(1)].nonce = urandom(12, 3)
    /\ uuid_str(ForeignId) \in DOMAIN entries
    /\ entries[uuid_str(ForeignId)].nonce = urandom(12, 2)

\* ------------------------------------------------------------------ C16
\* A step that changed a row in the database file, not one serving a request.
DiskStep ==
    /\ entries' # entries
    /\ UNCHANGED <<now, call, returned, metadata, throttle, settings, audit, sessions, issued,
                   created, drawn, request, response>>

\* The step serves GET /entries/{k} from a live session while the record
\* stored under k does not decrypt to a well-formed Entry under its key.
C16_ReadsUnopenable(k) ==
    /\ RequestStep /\ ~DiskStep
    /\ k \in DOMAIN entries
    /\ request'.method = "GET" /\ request'.path = "/entries/" \o k
    /\ Live(request'.session_token)
    /\ ~Opened(entries[k], sessions[request'.session_token].enc_key).ok

C16_NoGetSuccess ==
    \A i \in DOMAIN audit' :
        ~(audit'[i].type = "ENTRY_GET" /\ audit'[i].outcome = "SUCCESS")

\* C16: GET /entries/{id} on a stored record that cannot be decrypted into
\* a well-formed Entry returns 500 ENTRY_UNAVAILABLE and commits no
\* ENTRY_GET SUCCESS audit event, whatever the cause (tag mismatch, stored
\* nonce of the wrong length, non-UTF-8 or non-JSON plaintext, plaintext
\* that is no valid Entry); the response is the same for every cause.
C16_UnopenableIsEntryUnavailable ==
    [][\A k \in DOMAIN entries :
         C16_ReadsUnopenable(k)
           => /\ response'.status = 500
              /\ response'.code = "ENTRY_UNAVAILABLE"
              /\ response'.body = <<>>
              /\ C16_NoGetSuccess]_vars

\* What the code does: such a read is answered 500 without an entry, writes
\* no ENTRY_GET SUCCESS event and leaves the record as it is; the code is
\* ENTRY_UNAVAILABLE for a tag mismatch, a plaintext that is not JSON or no
\* valid Entry, and INTERNAL_ERROR for a stored nonce that is not 12 bytes
\* long or a plaintext that is not UTF-8.
C16_UnopenableIsServerError ==
    [][\A k \in DOMAIN entries :
         C16_ReadsUnopenable(k)
           => LET row == entries[k]
                  opened == AESGCM_decrypt(sessions[request'.session_token].enc_key,
                                           row.nonce, row.ciphertext, AES_GCM_AAD)
                  uncaught == \/ row.nonce.len # AES_GCM_NONCE_BYTES
                              \/ opened.ok /\ ~opened.plaintext.utf8
              IN /\ response'.status = 500
                 /\ response'.body = <<>>
                 /\ response'.code = IF uncaught THEN "INTERNAL_ERROR"
                                                 ELSE "ENTRY_UNAVAILABLE"
                 /\ C16_NoGetSuccess
                 /\ entries' = entries]_vars

\* A live session has read a record whose stored nonce is 11 bytes long and
\* was answered 500 INTERNAL_ERROR.
C16_Witness ==
    /\ request.method = "GET" /\ request.path = "/entries/uuid-1"
    /\ IsLive(request.session_token)
    /\ uuid_str(1) \in DOMAIN entries
    /\ entries[uuid_str(1)].nonce.len = AES_GCM_NONCE_BYTES - 1
    /\ response.status = 500 /\ response.code = "INTERNAL_ERROR"
    /\ audit = <<>>

\* Reads of records damaged in each of the other ways were answered 500
\* ENTRY_UNAVAILABLE.
C16_WitnessUnavailable ==
    /\ request.method = "GET" /\ request.path = "/entries/uuid-1"
    /\ IsLive(request.session_token)
    /\ uuid_str(1) \in DOMAIN entries
    /\ entries[uuid_str(1)].ciphertext.delta # {}
    /\ response.status = 500 /\ response.code = "ENTRY_UNAVAILABLE"

\* ------------------------------------------------------------------ C17
\* The step serves a request for /entries/{k} that carries the cookies and
\* header of a live session.
C17_Serves(method, k) ==
    /\ RequestStep /\ ~DiskStep
    /\ request'.method = method /\ request'.path = "/entries/" \o k
    /\ Live(request'.session_token)
    /\ method # "GET" => CsrfAnchored(request')

C17_NotFoundEvent(type, k) ==
    /\ Len(audit') = 1
    /\ audit'[1].type = type /\ audit'[1].outcome = "FAILURE"
    /\ audit'[1].meta = <<<<KV(KeyChars.entry_id, "str", k),
                            KV(KeyChars.reason, "str", "not_found")>>>>

\* C17: DELETE /entries/{id} on a stored id removes exactly that record and
\* leaves every other record unchanged, so that a later GET of the id finds
\* no record; GET, PUT and DELETE of an id that is not stored return 404
\* ENTRY_NOT_FOUND, leave all entry records unchanged and commit a FAILURE
\* audit event of their type with reason not_found.
C17_DeleteAndNotFound ==
    [][\A u \in UUIDs :
        LET k == uuid_str(u)
        IN /\ (C17_Serves("DELETE", k) /\ k \in DOMAIN entries)
                => /\ response'.status = 204
                   /\ DOMAIN entries' = DOMAIN entries \ {k}
                   /\ \A j \in DOMAIN entries' : entries'[j] = entries[j]
           /\ \A method \in {"GET", "PUT", "DELETE"} :
                (C17_Serves(method, k) /\ k \notin DOMAIN entries)
                   => /\ response'.status = 404
                      /\ response'.code = "ENTRY_NOT_FOUND"
                      /\ entries' = entries
                      /\ C17_NotFoundEvent("ENTRY_" \o (IF method = "PUT" THEN "UPDATE"
                                                                        ELSE method), k)]_vars

\* The created entry has been deleted while an imported one stays stored.
C17_Witness ==
    /\ request.method = "DELETE" /\ request.path = "/entries/uuid-1"
    /\ response.status = 204
    /\ created = 1
    /\ uuid_str(1) \notin DOMAIN entries
    /\ uuid_str(ForeignId) \in DOMAIN entries

\* A read of the deleted entry has been answered 404.
C17_WitnessGetAfterDelete ==
    /\ request.method = "GET" /\ request.path = "/entries/uuid-1"
    /\ response.status = 404 /\ response.code = "ENTRY_NOT_FOUND"
    /\ created = 1
    /\ uuid_str(1) \notin DOMAIN entries
    /\ Len(audit) = 1 /\ audit[1].type = "ENTRY_GET" /\ audit[1].outcome = "FAILURE"

\* ------------------------------------------------------------------ C18
C18_SummaryFields == {"id", "title", "username", "url", "favorite", "updatedAt"}

\* C18: GET /entries returns one summary per stored record, ordered by
\* updatedAt descending, and every summary has exactly the fields id,
\* title, username, url, favorite and updatedAt, with the values of the
\* stored entry: neither the password nor the notes of any entry is in the
\* listing.
C18_ListIsSortedSummaries ==
    [][(/\ RequestStep
        /\ request'.method = "GET" /\ request'.path = "/entries"
        /\ Live(request'.session_token))
       => LET body == response'.body
              key == sessions[request'.session_token].enc_key
          IN /\ response'.status = 200
             /\ Len(body) = Cardinality(DOMAIN entries)
             /\ \A k \in DOMAIN entries :
                  \E i \in DOMAIN body :
                     LET entry == Opened(entries[k], key).entry
                     IN /\ uuid_str(body[i].id) = k
                        /\ body[i].title = entry.title
                        /\ body[i].username = entry.username
                        /\ body[i].url = entry.url
                        /\ body[i].favorite = entry.favorite
                        /\ body[i].updatedAt = entry.updatedAt
             /\ \A i, j \in DOMAIN body :
                  i < j => timestamp(body[i].updatedAt) >= timestamp(body[j].updatedAt)
             /\ \A i \in DOMAIN body : DOMAIN body[i] = C18_SummaryFields
             /\ entries' = entries]_vars

\* What the code does: the same whenever the timestamps of the stored
\* entries are all aware or all naive.  When an entry stamped without
\* timezone is stored beside one stamped in UTC, entries.sort raises
\* TypeError and the listing is answered 500 INTERNAL_ERROR.
C18_Mixed(key) ==
    \E a, b \in DOMAIN entries :
        (Opened(entries[a], key).entry.updatedAt.offset = NULL)
        # (Opened(entries[b], key).entry.updatedAt.offset = NULL)
C18_ListOutcome ==
    [][(/\ RequestStep
        /\ request'.method = "GET" /\ request'.path = "/entries"
        /\ Live(request'.session_token))
       => LET body == response'.body
              key == sessions[request'.session_token].enc_key
          IN IF C18_Mixed(key)
             THEN /\ response'.status = 500 /\ response'.code = "INTERNAL_ERROR"
                  /\ audit' = <<>>
                  /\ entries' = entries
             ELSE /\ response'.status = 200
                  /\ Len(body) = Cardinality(DOMAIN entries)
                  /\ \A k \in DOMAIN entries :
                       \E i \in DOMAIN body :
                          LET entry == Opened(entries[k], key).entry
                          IN /\ uuid_str(body[i].id) = k
                             /\ body[i].title = entry.title
                             /\ body[i].username = entry.username
                             /\ body[i].url = entry.url
                             /\ body[i].favorite = entry.favorite
                             /\ body[i].updatedAt = entry.updatedAt
                  /\ \A i, j \in DOMAIN body :
                       i < j => timestamp(as_utc(body[i].updatedAt))
                                   >= timestamp(as_utc(body[j].updatedAt))
                  /\ \A i \in DOMAIN body : DOMAIN body[i] = C18_SummaryFields
                  /\ entries' = entries]_vars

\* A listing has been answered 500 over a created entry and an imported
\* one whose timestamp has no timezone.
C18_WitnessMixed ==
    /\ request.method = "GET" /\ request.path = "/entries"
    /\ response.status = 500 /\ response.code = "INTERNAL_ERROR"
    /\ DOMAIN entries = {uuid_str(1), uuid_str(ForeignId)}
    /\ entries[uuid_str(ForeignId)].updated_at = datetime(5000, NULL)

\* A listing of two entries has been returned, the created one, which has
\* notes, ahead of an older imported one.
C18_Witness ==
    /\ request.method = "GET" /\ request.path = "/entries"
    /\ response.status = 200
    /\ Len(response.body) = 2
    /\ response.body[1].id = 1 /\ response.body[2].id = ForeignId
    /\ timestamp(response.body[1].updatedAt) > timestamp(response.body[2].updatedAt)
    /\ response.body[1].title = "gitlab"
    /\ DOMAIN entries = {uuid_str(1), uuid_str(ForeignId)}

\* ------------------------------------------------------------------ C19
\* The tag of the ciphertext does not verify under the key and nonce of the
\* call: it was sealed under another key, nonce or associated data, or its
\* bytes were changed since.
C19_TagMismatch ==
    \/ call.ciphertext.key # call.enc_key
    \/ call.ciphertext.nonce # call.nonce
    \/ call.ciphertext.aad # AES_GCM_AAD
    \/ call.ciphertext.delta # {}
C19_BadLength ==
    call.enc_key.bytes # 32 \/ call.nonce.len # 12
C19_IntegrityError == [ok |-> FALSE, error |-> "CryptoIntegrityError"]

\* C19: decrypt(key, nonce, ciphertext) fails with CryptoIntegrityError,
\* and with no other error kind, when the key is not 32 bytes long, the
\* nonce is not 12 bytes long, the tag does not verify, the plaintext is not
\* valid UTF-8, or the plaintext is not valid JSON.
C19_EveryFailureIsIntegrityError ==
    (/\ returned # <<>>
     /\ \/ C19_BadLength
        \/ C19_TagMismatch
        \/ ~call.ciphertext.plaintext.utf8
        \/ ~call.ciphertext.plaintext.json)
    => returned[1] = C19_IntegrityError

\* What the code does: ValueError for a key or nonce of the wrong length,
\* whatever the ciphertext; otherwise CryptoIntegrityError for a tag that
\* does not verify; otherwise UnicodeDecodeError for a plaintext that is
\* not UTF-8 and CryptoIntegrityError for one that is not JSON; otherwise
\* the object.
C19_FailureKinds ==
    returned # <<>>
    => returned[1] =
         IF C19_BadLength THEN [ok |-> FALSE, error |-> "ValueError"]
         ELSE IF C19_TagMismatch THEN C19_IntegrityError
         ELSE IF ~call.ciphertext.plaintext.utf8
         THEN [ok |-> FALSE, error |-> "UnicodeDecodeError"]
         ELSE IF ~call.ciphertext.plaintext.json THEN C19_IntegrityError
         ELSE [ok |-> TRUE, value |-> call.ciphertext.plaintext.value]

\* A decryption with a 32-byte key and an 11-byte nonce has raised ValueError.
C19_Witness ==
    /\ returned = <<[ok |-> FALSE, error |-> "ValueError"]>>
    /\ call.enc_key.bytes = 32
    /\ call.nonce.len = 11

\* A decryption of an intact ciphertext whose plaintext is not UTF-8 has
\* raised UnicodeDecodeError.
C19_WitnessNotUtf8 ==
    /\ returned = <<[ok |-> FALSE, error |-> "UnicodeDecodeError"]>>
    /\ ~C19_TagMismatch

\* ------------------------------------------------------------------ C20
\* C20: for every 32-byte key, object and ciphertext that encrypt(key,
\* object) produced, decrypting under the same key and nonce a ciphertext
\* that differs from it in a single bit raises CryptoIntegrityError and
\* returns no object.
C20_BitFlipDetected ==
    \A obj \in CryptoObjects, i \in 1..MaxBit :
        LET encrypted == encrypt_json(call.enc_key, obj, call.nonce)
        IN (/\ returned # <<>>
            /\ encrypted.ok
            /\ call.nonce.len = AES_GCM_NONCE_BYTES
            /\ call.ciphertext = flip_bit(encrypted.ciphertext, i))
           => returned[1] = [ok |-> FALSE, error |-> "CryptoIntegrityError"]

\* The third ciphertext encrypt_json produced had its first bit inverted
\* and its decryption under the same key and nonce has raised
\* CryptoIntegrityError.
C20_Witness ==
    /\ drawn = 3
    /\ call.nonce = urandom(AES_GCM_NONCE_BYTES, 3)
    /\ call.ciphertext \in {flip_bit(encrypt_json(call.enc_key, obj, call.nonce).ciphertext, 1) :
                              obj \in CryptoObjects}
    /\ returned = <<[ok |-> FALSE, error |-> "CryptoIntegrityError"]>>

\* ------------------------------------------------------------------ C21
\* C21: backup round trip.  Loading the envelope build_backup_envelope
\* made of entries, settings, session key k and optional export password
\* pw, with session key k' and import password pw', returns a bundle with
\* the same entries and settings when pw is absent and k' = k, or when pw
\* is present and pw' = pw, whatever k'; with another key or password the
\* load fails and returns nothing.
C21_RoundTrip ==
    (returned # <<>> /\ call.fn = "load" /\ call.source # <<>>)
    => LET built == call.source[1]
           protected == Truthy(built.password)
       IN IF \/ ~protected /\ call.key = built.key
             \/ protected /\ call.password = built.password
          THEN /\ returned[1].ok
               /\ returned[1].bundle.entries = built.entries
               /\ returned[1].bundle.settings = built.settings
          ELSE ~returned[1].ok

\* A bundle of two entries, one with a naive timestamp, exported under a
\* password has been loaded back under another session key.
C21_Witness ==
    /\ returned # <<>> /\ call.fn = "load" /\ call.source # <<>>
    /\ call.source[1].password = <<BackupPassword>>
    /\ call.key # call.source[1].key
    /\ returned[1].ok
    /\ Len(returned[1].bundle.entries) = 2
    /\ returned[1].bundle.entries[2].updatedAt.offset = NULL

\* A load of a password-protected envelope with another password has failed.
C21_WitnessWrongPassword ==
    /\ returned # <<>> /\ call.fn = "load" /\ call.source # <<>>
    /\ call.source[1].password = <<BackupPassword>>
    /\ call.password = <<"another-backup-password">>
    /\ ~returned[1].ok

\* ------------------------------------------------------------------ C22
C22_ExportStep ==
    /\ RequestStep
    /\ request'.method = "POST" /\ request'.path = "/backup/export"
    /\ Live(request'.session_token)

\* The key under which the export of an envelope opens.
C22_SealedUnder(envelope, key) ==
    LET opened == decrypt_json(key, _b64decode(envelope.export.nonce).data,
                               _b64decode(envelope.export.ciphertext).data)
    IN opened.ok /\ BackupBundle_model_validate(opened.value).ok

C22_Envelope(pw, session_key) ==
    LET envelope == response'.body
    IN /\ response'.status = 200
       /\ IF pw = <<>>
          THEN /\ envelope.kdfParams = <<>> /\ envelope.salt = <<>>
               /\ C22_SealedUnder(envelope, session_key)
          ELSE /\ envelope.kdfParams # <<>> /\ envelope.salt # <<>>
               /\ ~C22_SealedUnder(envelope, session_key)
               /\ LET master_key ==
                          derive_master_key_raw(
                             pw[1], _b64decode(envelope.salt[1]).data,
                             [memory_cost |-> envelope.kdfParams[1].memoryCost,
                              time_cost |-> envelope.kdfParams[1].timeCost,
                              parallelism |-> envelope.kdfParams[1].parallelism])
                  IN /\ master_key.ok
                     /\ C22_SealedUnder(envelope, derive_backup_key(master_key.key))

\* C22: POST /backup/export from an unlocked session returns 200 with an
\* envelope for every accepted request body: without exportPassword
\* kdfParams and salt are null and the bundle is encrypted under the
\* session encryption key; with any accepted exportPassword (1 to 128
\* characters) both are non-null and the bundle is encrypted under the
\* backup key derived from that password.
C22_ExportAlwaysSucceeds ==
    [][C22_ExportStep
       => C22_Envelope(request'.body.exportPassword,
                       sessions[request'.session_token].enc_key)]_vars

\* What the code does: the same for no password and for one of 12 to 128
\* characters; a password of 1 to 11 characters is answered 500
\* INTERNAL_ERROR by the handler for unhandled exceptions, and nothing is
\* committed.
C22_ExportOutcome ==
    [][C22_ExportStep
       => LET pw == request'.body.exportPassword
          IN IF pw # <<>> /\ Len(pw[1]) < 12
             THEN /\ response'.status = 500 /\ response'.code = "INTERNAL_ERROR"
                  /\ audit' = <<>>
                  /\ UNCHANGED <<entries, settings, drawn>>
             ELSE C22_Envelope(pw, sessions[request'.session_token].enc_key)]_vars

\* An export with a password of five characters has been answered 500.
C22_Witness ==
    /\ request.method = "POST" /\ request.path = "/backup/export"
    /\ request.body.exportPassword = <<"short">>
    /\ response.status = 500 /\ response.code = "INTERNAL_ERROR"
    /\ DOMAIN entries # {}

\* An export under a password of 17 characters has been answered with an
\* envelope that carries kdfParams and salt.
C22_WitnessProtected ==
    /\ request.method = "POST" /\ request.path = "/backup/export"
    /\ request.body.exportPassword = <<BackupPassword>>
    /\ response.status = 200
    /\ response.body.kdfParams # <<>> /\ response.body.salt # <<>>

\* ------------------------------------------------------------------ C23
\* The export of the envelope opens under key as a valid bundle.
C23_OpensUnder(envelope, key) ==
    LET opened == decrypt_json(key, _b64decode(envelope.export.nonce).data,
                               _b64decode(envelope.export.ciphertext).data)
    IN opened.ok /\ BackupBundle_model_validate(opened.value).ok

C23_Rejected(result, message) ==
    /\ ~result.ok /\ result.error = "ValueError" /\ result.message = message
    /\ result.decrypts = 0

\* C23: import key selection.  With kdfParams and salt both absent the
\* bundle is opened with the session encryption key; with exactly one of
\* them present the file is rejected as invalid; with both present and no
\* password it is rejected with "Import password required."; with both
\* present and a password it is opened with the backup key derived from
\* that password under the envelope's salt and parameters.  Every
\* rejection is raised before decrypt_json is called.
C23_KeySelection ==
    (returned # <<>> /\ call.fn = "load")
    => LET envelope == call.envelope
           result == returned[1]
       IN IF envelope.kdfParams = <<>> /\ envelope.salt = <<>>
          THEN /\ result.decrypts = 1
               /\ result.ok = C23_OpensUnder(envelope, call.key)
          ELSE IF envelope.kdfParams = <<>> \/ envelope.salt = <<>>
          THEN C23_Rejected(result, "Invalid backup file.")
          ELSE IF ~Truthy(call.password)
          THEN C23_Rejected(result, "Import password required.")
          ELSE LET salt == _b64decode(envelope.salt[1])
                   master_key ==
                       derive_master_key_raw(
                          call.password[1], salt.data,
                          [memory_cost |-> envelope.kdfParams[1].memoryCost,
                           time_cost |-> envelope.kdfParams[1].timeCost,
                           parallelism |-> envelope.kdfParams[1].parallelism])
               IN IF ~salt.ok \/ ~master_key.ok
                  THEN ~result.ok /\ result.decrypts = 0
                  ELSE /\ result.decrypts = 1
                       /\ result.ok = C23_OpensUnder(envelope,
                                         derive_backup_key(master_key.key))

\* An envelope sealed under the session key to which a salt was added has
\* been rejected as an invalid file, under that session key.
C23_Witness ==
    /\ returned # <<>> /\ call.fn = "load"
    /\ call.envelope.kdfParams = <<>> /\ call.envelope.salt # <<>>
    /\ C23_OpensUnder(call.envelope, call.key)
    /\ C23_Rejected(returned[1], "Invalid backup file.")

\* A password-protected envelope has been opened with its password, and
\* one has been refused for want of a password.
C23_WitnessDerived ==
    /\ returned # <<>> /\ call.fn = "load" /\ call.source = <<>>
    /\ call.envelope.kdfParams # <<>> /\ call.envelope.salt # <<>>
    /\ call.password = <<BackupPassword>>
    /\ returned[1].ok
C23_WitnessNoPassword ==
    /\ returned # <<>> /\ call.fn = "load"
    /\ call.envelope.kdfParams # <<>> /\ call.envelope.salt # <<>>
    /\ call.password = <<>>
    /\ C23_Rejected(returned[1], "Import password required.")

\* ------------------------------------------------------------------ C24
\* The entries of the uploaded bundle when the file of the request has the
\* .json extension, parses and decrypts under the session's key.
C24_Decryptable(req, key) ==
    /\ HasJsonExtension(req.body.file.filename)
    /\ parse_backup_json(req.body.file.raw_bytes).ok
    /\ load_backup_bundle(parse_backup_json(req.body.file.raw_bytes).envelope,
                          key, req.body.password).ok
C24_Incoming(req, key) ==
    load_backup_bundle(parse_backup_json(req.body.file.raw_bytes).envelope,
                       key, req.body.password).bundle.entries

\* The instant of a timestamp, one without timezone read as UTC.
C24_Instant(stamp) == IF stamp.offset = NULL THEN stamp.wall ELSE stamp.wall - stamp.offset
C24_Added(entry) == uuid_str(entry.id) \notin DOMAIN entries
C24_Updated(entry) ==
    /\ uuid_str(entry.id) \in DOMAIN entries
    /\ C24_Instant(entry.updatedAt) > C24_Instant(entries[uuid_str(entry.id)].updated_at)
C24_Skipped(entry) ==
    /\ uuid_str(entry.id) \in DOMAIN entries
    /\ C24_Instant(entry.updatedAt) <= C24_Instant(entries[uuid_str(entry.id)].updated_at)

C24_PreviewStep ==
    /\ RequestStep
    /\ request'.method = "POST" /\ request'.path = "/backup/import/preview"
    /\ Live(request'.session_token)

\* C24: for a decryptable bundle, import preview counts every incoming
\* entry in exactly one way against the stored records: added when its id
\* is not stored, updated when its id is stored and its updatedAt is later
\* than the stored updated_at, skipped when its id is stored and it is not
\* later, a timestamp without timezone being compared as UTC; the three
\* counts add up to the number of entries in the bundle.
C24_PreviewClassifies ==
    [][(/\ C24_PreviewStep
        /\ C24_Decryptable(request', sessions[request'.session_token].enc_key))
       => LET incoming == C24_Incoming(request', sessions[request'.session_token].enc_key)
              body == response'.body
              Count(P(_)) == Cardinality({i \in DOMAIN incoming : P(incoming[i])})
          IN /\ response'.status = 200
             /\ body.added = Count(C24_Added)
             /\ body.updated = Count(C24_Updated)
             /\ body.skipped = Count(C24_Skipped)
             /\ body.errors = <<>>
             /\ body.added + body.updated + body.skipped = Len(incoming)]_vars

\* A preview has counted as updated an entry whose timestamp has no
\* timezone and is later than the stored one, which has none either.
C24_Witness ==
    /\ request.method = "POST" /\ request.path = "/backup/import/preview"
    /\ response.status = 200
    /\ response.body = [added |-> 0, updated |-> 1, skipped |-> 0, errors |-> <<>>]
    /\ Live(request.session_token)
    /\ LET incoming == C24_Incoming(request, sessions[request.session_token].enc_key)
       IN /\ incoming[1].updatedAt = datetime(5000, NULL)
          /\ entries[uuid_str(incoming[1].id)].updated_at = datetime(0, NULL)

\* A preview of a bundle of two entries has counted one as updated and one
\* as skipped, and one has counted an entry as added.
C24_WitnessPair ==
    /\ request.method = "POST" /\ request.path = "/backup/import/preview"
    /\ response.status = 200
    /\ response.body = [added |-> 0, updated |-> 1, skipped |-> 1, errors |-> <<>>]
C24_WitnessAdded ==
    /\ request.method = "POST" /\ request.path = "/backup/import/preview"
    /\ response.status = 200
    /\ response.body.added = 1

\* ------------------------------------------------------------------ C25
\* C25: POST /backup/import/preview never mutates state: whatever the
\* uploaded file and password, the stored entry records and the settings
\* row are the same after the request as before it.
C25_PreviewKeepsState ==
    [][(/\ RequestStep
        /\ request'.method = "POST" /\ request'.path = "/backup/import/preview")
       => /\ entries' = entries
          /\ settings' = settings]_vars

\* A preview that announced an update and an addition has been answered
\* while one entry was stored.
C25_Witness ==
    /\ request.method = "POST" /\ request.path = "/backup/import/preview"
    /\ response.status = 200
    /\ response.body.updated = 1 /\ response.body.added = 1
    /\ DOMAIN entries = {uuid_str(1)}

\* A preview of a file that does not decrypt has been answered over a
\* store of two entries and restored settings.
C25_WitnessFailure ==
    /\ request.method = "POST" /\ request.path = "/backup/import/preview"
    /\ response.status = 200
    /\ response.body.errors # <<>>
    /\ Cardinality(DOMAIN entries) = 2
    /\ settings = <<SettingsRecord(ElsewhereSettings)>>

\* ------------------------------------------------------------------ C30
C30_PreviewKeys == {"added", "updated", "skipped", "errors"}

\* The session's preview of the upload finds no decryptable bundle.
C30_Unusable(req, key) ==
    \/ ~HasJsonExtension(req.body.file.filename)
    \/ ~parse_backup_json(req.body.file.raw_bytes).ok
    \/ ~load_backup_bundle(parse_backup_json(req.body.file.raw_bytes).envelope,
                           key, req.body.password).ok
\* ... because Argon2 refuses the parameters of the envelope.
C30_RefusedByArgon2(req, key) ==
    /\ HasJsonExtension(req.body.file.filename)
    /\ parse_backup_json(req.body.file.raw_bytes).ok
    /\ LET loaded == load_backup_bundle(parse_backup_json(req.body.file.raw_bytes).envelope,
                                        key, req.body.password)
       IN ~loaded.ok /\ loaded.error = "HashingError"

\* C30: for every upload to POST /backup/import/preview by an unlocked
\* session, with or without a password field, the response is HTTP 200
\* with a body whose keys are exactly added, updated, skipped and errors;
\* whenever the file is malformed or cannot be decrypted, an envelope with
\* unusable kdfParams or salt included, all three counts are 0.
C30_PreviewAlways200 ==
    [][C24_PreviewStep
       => /\ response'.status = 200
          /\ DOMAIN response'.body = C30_PreviewKeys
          /\ C30_Unusable(request', sessions[request'.session_token].enc_key)
             => /\ response'.body.added = 0 /\ response'.body.updated = 0
                /\ response'.body.skipped = 0]_vars

\* What the code does: the same, but for an envelope whose kdfParams
\* Argon2 refuses, which is answered 500 INTERNAL_ERROR with no audit event.
C30_PreviewOutcome ==
    [][C24_PreviewStep
       => LET key == sessions[request'.session_token].enc_key
          IN IF C30_RefusedByArgon2(request', key)
             THEN /\ response'.status = 500 /\ response'.code = "INTERNAL_ERROR"
                  /\ audit' = <<>>
             ELSE /\ response'.status = 200
                  /\ DOMAIN response'.body = C30_PreviewKeys
                  /\ C30_Unusable(request', key)
                     => /\ response'.body = InvalidBackupFile
                        /\ Len(audit') = 1 /\ audit'[1].outcome = "FAILURE"]_vars

\* The preview of an envelope with memoryCost = 1, with the password and
\* salt of the export, has been answered 500.
C30_Witness ==
    /\ request.method = "POST" /\ request.path = "/backup/import/preview"
    /\ request.body.file.raw_bytes.json
    /\ request.body.file.raw_bytes.value.kdfParams = <<WeakParams>>
    /\ request.body.password = <<BackupPassword>>
    /\ response.status = 500 /\ response.code = "INTERNAL_ERROR"

\* The preview of an envelope with a salt of 8 bytes has been answered 200
\* with zero counts.
C30_WitnessShortSalt ==
    /\ request.method = "POST" /\ request.path = "/backup/import/preview"
    /\ request.body.file.raw_bytes.json
    /\ request.body.file.raw_bytes.value.salt = <<_b64encode(urandom(8, 1))>>
    /\ response.status = 200 /\ response.body = InvalidBackupFile

\* ------------------------------------------------------------------ C26
C26_ApplyStep ==
    /\ RequestStep
    /\ request'.method = "POST" /\ request'.path = "/backup/import/apply"
    /\ Live(request'.session_token)

\* Records inserted and records replaced by the step.
C26_Inserted == DOMAIN entries' \ DOMAIN entries
C26_Replaced == {k \in DOMAIN entries \cap DOMAIN entries' : entries'[k] # entries[k]}

\* The bundle lists an id more than once.
C26_Repeats(incoming) ==
    \E i, j \in DOMAIN incoming : i # j /\ incoming[i].id = incoming[j].id

\* The apply answered with the summary of preview and committed exactly it.
C26_Performs(incoming, key) ==
    LET Keys(P(_)) == {uuid_str(incoming[i].id) : i \in {j \in DOMAIN incoming : P(incoming[j])}}
    IN /\ response'.status = 200
       /\ response'.body = _compute_import_summary(entries, incoming)
       /\ response'.body.added = Cardinality(C26_Inserted)
       /\ response'.body.updated = Cardinality(C26_Replaced)
       /\ C26_Inserted = Keys(C24_Added)
       /\ C26_Replaced = Keys(C24_Updated)
       /\ \A k \in C26_Inserted \cup C26_Replaced :
             \E i \in DOMAIN incoming :
                /\ uuid_str(incoming[i].id) = k
                /\ Opened(entries'[k], key).ok
                /\ Opened(entries'[k], key).entry = incoming[i]
                /\ entries'[k].updated_at = sqlite_datetime(incoming[i].updatedAt)
       /\ DOMAIN entries \subseteq DOMAIN entries'

\* C26: POST /backup/import/apply on a decryptable bundle answers with the
\* summary preview would compute on the same store and performs exactly
\* it: one insert per entry counted as added, one replacement per entry
\* counted as updated, no change for entries counted as skipped, and no
\* change or deletion of stored records whose id is not in the bundle;
\* the reported added and updated counts equal the numbers of inserts and
\* replacements committed, also when the bundle lists an id more than once.
C26_ApplyPerformsSummary ==
    [][(/\ C26_ApplyStep
        /\ C24_Decryptable(request', sessions[request'.session_token].enc_key))
       => C26_Performs(C24_Incoming(request', sessions[request'.session_token].enc_key),
                       sessions[request'.session_token].enc_key)]_vars

\* What the code does: the same for a bundle of distinct ids.  When an id
\* that is not stored is listed twice the commit fails, the answer is 400
\* IMPORT_FAILED and nothing is inserted; when a stored id is listed twice
\* the answer counts every listing that is later than the stored record,
\* while the record is replaced once.
C26_ApplyOutcome ==
    [][(/\ C26_ApplyStep
        /\ C24_Decryptable(request', sessions[request'.session_token].enc_key))
       => LET key == sessions[request'.session_token].enc_key
              incoming == C24_Incoming(request', key)
          IN IF ~C26_Repeats(incoming) THEN C26_Performs(incoming, key)
             ELSE IF \E i \in DOMAIN incoming : C24_Added(incoming[i])
             THEN /\ response'.status = 400 /\ response'.code = "IMPORT_FAILED"
                  /\ entries' = entries
             ELSE /\ response'.status = 200
                  /\ response'.body = _compute_import_summary(entries, incoming)
                  /\ response'.body.added = 0 /\ C26_Inserted = {}
                  /\ Cardinality(C26_Replaced) <= response'.body.updated
                  /\ DOMAIN entries' = DOMAIN entries]_vars

\* An apply has answered updated = 2 for a bundle that lists the stored
\* entry twice, and the store holds that one entry.
C26_Witness ==
    /\ request.method = "POST" /\ request.path = "/backup/import/apply"
    /\ response.status = 200
    /\ response.body.updated = 2
    /\ DOMAIN entries = {uuid_str(1)}

\* An apply of a bundle that lists a new entry twice has been answered 400.
C26_WitnessFailed ==
    /\ request.method = "POST" /\ request.path = "/backup/import/apply"
    /\ response.status = 400 /\ response.code = "IMPORT_FAILED"

\* An apply has inserted one entry and replaced another.
C26_WitnessBoth ==
    /\ request.method = "POST" /\ request.path = "/backup/import/apply"
    /\ response.status = 200
    /\ response.body = [added |-> 1, updated |-> 1, skipped |-> 0, errors |-> <<>>]
    /\ Cardinality(DOMAIN entries) = 2

\* ------------------------------------------------------------------ C27
\* The step applies again the file the previous request applied, in the
\* same session, and the file holds a decryptable bundle.
C27_SecondApply ==
    /\ C26_ApplyStep
    /\ request' = request
    /\ C24_Decryptable(request, sessions[request.session_token].enc_key)

\* C27: applying the same backup file twice in a row with no other change
\* in between, the second apply reports added = 0, updated = 0 and
\* skipped = the number of entries in the bundle, and leaves the entry
\* records as the first apply left them.
C27_SecondApplySkipsAll ==
    [][C27_SecondApply
       => LET incoming == C24_Incoming(request, sessions[request.session_token].enc_key)
          IN /\ response'.status = 200
             /\ response'.body = [added |-> 0, updated |-> 0, skipped |-> Len(incoming),
                                  errors |-> <<>>]
             /\ entries' = entries]_vars

\* What the code does.  After a first apply that was committed, the second
\* counts as updated, and rewrites, every entry whose updatedAt has a
\* negative UTC offset and whose record holds that wall-clock reading
\* without the offset; it counts all others as skipped.  After a first
\* apply that failed, the second fails the same way.
C27_SecondApplyOutcome ==
    [][C27_SecondApply
       => LET incoming == C24_Incoming(request, sessions[request.session_token].enc_key)
              drifting == {i \in DOMAIN incoming :
                             /\ incoming[i].updatedAt.offset # NULL
                             /\ incoming[i].updatedAt.offset < 0
                             /\ entries[uuid_str(incoming[i].id)].updated_at
                                   = sqlite_datetime(incoming[i].updatedAt)}
          IN IF response.status = 400
             THEN /\ response'.status = 400 /\ response'.code = "IMPORT_FAILED"
                  /\ entries' = entries
             ELSE /\ response'.status = 200
                  /\ response'.body = [added |-> 0, updated |-> Cardinality(drifting),
                                       skipped |-> Len(incoming) - Cardinality(drifting),
                                       errors |-> <<>>]
                  /\ (entries' = entries) = (drifting = {})]_vars

\* Two applies were made and nothing else wrote; the latest, of an entry
\* stamped 5000 at -05:00, was answered updated = 1 over a record that
\* holds the entry with the reading 5000.
C27_Witness ==
    /\ request.method = "POST" /\ request.path = "/backup/import/apply"
    /\ response.status = 200
    /\ response.body = [added |-> 0, updated |-> 1, skipped |-> 0, errors |-> <<>>]
    /\ created = 0 /\ drawn = 2
    /\ Live(request.session_token)
    /\ LET key == sessions[request.session_token].enc_key
           incoming == C24_Incoming(request, key)
       IN /\ Len(incoming) = 1
          /\ incoming[1].updatedAt = datetime(5000, 0 - 18000)
          /\ DOMAIN entries = {uuid_str(incoming[1].id)}
          /\ entries[uuid_str(incoming[1].id)].nonce = urandom(AES_GCM_NONCE_BYTES, 2)

\* A second apply of a bundle stamped in UTC has skipped its entry.
C27_WitnessSkipped ==
    /\ request.method = "POST" /\ request.path = "/backup/import/apply"
    /\ response.status = 200
    /\ response.body = [added |-> 0, updated |-> 0, skipped |-> 1, errors |-> <<>>]
    /\ created = 0 /\ drawn = 2
    /\ DOMAIN entries = {uuid_str(ForeignId)}
    /\ entries[uuid_str(ForeignId)].updated_at = datetime(5000, NULL)

\* ------------------------------------------------------------------ C28
\* A step of the transaction fails: the flush of two inserts of one id.
C28_Fails(incoming) ==
    \E i, j \in DOMAIN incoming :
        i # j /\ incoming[i].id = incoming[j].id /\ C24_Added(incoming[i])

C28_Event(outcome, meta) ==
    <<[type |-> "BACKUP_IMPORT_APPLY", outcome |-> outcome, meta |-> <<meta>>]>>

\* C28: import apply is all-or-nothing.  If a step fails after the file
\* was parsed and decrypted, every insert, replacement and settings
\* overwrite of the request is rolled back, the response is 400
\* IMPORT_FAILED and a BACKUP_IMPORT_APPLY FAILURE audit event is all that
\* is committed; otherwise the changes, the settings of the bundle and the
\* SUCCESS audit event are committed together.
C28_AllOrNothing ==
    [][(/\ C26_ApplyStep
        /\ C24_Decryptable(request', sessions[request'.session_token].enc_key))
       => LET key == sessions[request'.session_token].enc_key
              incoming == C24_Incoming(request', key)
              bundle == load_backup_bundle(
                           parse_backup_json(request'.body.file.raw_bytes).envelope,
                           key, request'.body.password).bundle
          IN IF C28_Fails(incoming)
             THEN /\ response'.status = 400 /\ response'.code = "IMPORT_FAILED"
                  /\ entries' = entries
                  /\ settings' = settings
                  /\ audit' = C28_Event("FAILURE",
                                 <<KV(KeyChars.reason, "str", "transaction_failed")>>)
             ELSE /\ response'.status = 200
                  /\ \A i \in DOMAIN incoming :
                        (C24_Added(incoming[i]) \/ C24_Updated(incoming[i]))
                        => uuid_str(incoming[i].id) \in C26_Inserted \cup C26_Replaced
                  /\ settings' = <<SettingsRecord(bundle.settings)>>
                  /\ audit' = C28_Event("SUCCESS", SummaryMeta(response'.body))]_vars

\* An apply was answered 400 IMPORT_FAILED over a store that holds an entry
\* and settings other than those of the bundle, and its FAILURE event is
\* committed.
C28_Witness ==
    /\ request.method = "POST" /\ request.path = "/backup/import/apply"
    /\ response.status = 400 /\ response.code = "IMPORT_FAILED"
    /\ DOMAIN entries = {uuid_str(1)}
    /\ settings # <<SettingsRecord(ElsewhereSettings)>>
    /\ audit = C28_Event("FAILURE", <<KV(KeyChars.reason, "str", "transaction_failed")>>)

\* An apply has committed an insert, the settings of the bundle and its
\* SUCCESS event.
C28_WitnessCommitted ==
    /\ request.method = "POST" /\ request.path = "/backup/import/apply"
    /\ response.status = 200 /\ response.body.added = 1
    /\ settings = <<SettingsRecord(ElsewhereSettings)>>
    /\ Len(audit) = 1 /\ audit[1].outcome = "SUCCESS"

\* ------------------------------------------------------------------ C29
C29_Rejection ==
    /\ response'.status = 200
    /\ response'.body = InvalidBackupFile
    /\ \E tag \in {"invalid_file_extension", "invalid_file"} :
          audit' = C28_Event("FAILURE", <<KV(KeyChars.reason, "str", tag)>>)
    /\ entries' = entries
    /\ settings' = settings

\* C29: when the uploaded file of import apply cannot be parsed as an
\* envelope or cannot be decrypted into a bundle, the response is HTTP 200
\* with added = updated = skipped = 0 and errors = ["Invalid backup
\* file."], a BACKUP_IMPORT_APPLY FAILURE audit event with a reason tag is
\* committed, and no entry or settings record is changed.
C29_UnusableFileIsReported ==
    [][(/\ C26_ApplyStep
        /\ C30_Unusable(request', sessions[request'.session_token].enc_key))
       => C29_Rejection]_vars

\* What the code does: the same, but for an envelope whose kdfParams
\* Argon2 refuses, which is answered 500 INTERNAL_ERROR with no audit
\* event; nothing is changed in either case.
C29_UnusableFileOutcome ==
    [][(/\ C26_ApplyStep
        /\ C30_Unusable(request', sessions[request'.session_token].enc_key))
       => IF C30_RefusedByArgon2(request', sessions[request'.session_token].enc_key)
          THEN /\ response'.status = 500 /\ response'.code = "INTERNAL_ERROR"
               /\ audit' = <<>>
               /\ entries' = entries
               /\ settings' = settings
          ELSE C29_Rejection]_vars

\* The apply of an envelope with memoryCost = 1 has been answered 500 over
\* a store that holds an entry.
C29_Witness ==
    /\ request.method = "POST" /\ request.path = "/backup/import/apply"
    /\ request.body.file.raw_bytes.json
    /\ request.body.file.raw_bytes.value.kdfParams = <<WeakParams>>
    /\ response.status = 500 /\ response.code = "INTERNAL_ERROR"
    /\ audit = <<>>
    /\ DOMAIN entries # {}

\* The apply of a file that is not JSON, and that of a bundle under a wrong
\* password, have been answered 200 with the error message.
C29_WitnessNotJson ==
    /\ request.method = "POST" /\ request.path = "/backup/import/apply"
    /\ request.body.file.raw_bytes = NotJson
    /\ response.status = 200 /\ response.body = InvalidBackupFile
C29_WitnessWrongPassword ==
    /\ request.method = "POST" /\ request.path = "/backup/import/apply"
    /\ request.body.password = <<"another-backup-password">>
    /\ response.status = 200 /\ response.body = InvalidBackupFile
    /\ DOMAIN entries # {}

\* ------------------------------------------------------------------ C31
\* The items of a dict that a sanitizer is to retain when the values of
\* the kinds in scalars count as scalar.
C31_Retained(meta, scalars) ==
    IF meta = <<>> THEN {}
    ELSE {meta[1][i] : i \in {j \in DOMAIN meta[1] :
                                /\ ~\E hint \in FORBIDDEN_META_HINTS :
                                      Contains(Lower(meta[1][j].key), hint)
                                /\ meta[1][j].kind \in scalars}}

\* result is null when nothing is retained and otherwise the mapping of
\* exactly the retained items.
C31_Maps(meta, result, scalars) ==
    IF C31_Retained(meta, scalars) = {} THEN result = <<>>
    ELSE /\ result # <<>>
         /\ {result[1][i] : i \in DOMAIN result[1]} = C31_Retained(meta, scalars)
         /\ Len(result[1]) = Cardinality(C31_Retained(meta, scalars))

\* C31: the audit writer's meta sanitizer maps every input mapping to the
\* same mapping minus every key whose lowercase form contains password,
\* secret, token, key or master, and minus every entry whose value is not
\* a scalar; entries whose value is a bool, int, float, string or null are
\* retained; a mapping that is empty before or after filtering becomes null.
C31_WriterRetainsScalars ==
    (returned # <<>> /\ call.fn = "write")
    => C31_Maps(call.meta, returned[1], {"bool", "int", "float", "str", "NoneType"})

\* What the code does: the writer retains bool, int, float and string
\* values and drops null values; the sanitizer of GET /audit retains null
\* values as well.
C31_SanitizerOutcome ==
    returned # <<>>
    => IF call.fn = "write"
       THEN C31_Maps(call.meta, returned[1], {"bool", "int", "float", "str"})
       ELSE C31_Maps(call.meta, returned[1], {"bool", "int", "float", "str", "NoneType"})

\* The writer has returned null for a mapping whose one entry, under a
\* clean key, has the value null.
C31_Witness ==
    /\ returned = <<<<>>>> /\ call.fn = "write"
    /\ call.meta = <<<<KV(KeyChars.reason, "NoneType", 0)>>>>

\* The writer has dropped a key that is forbidden once lowered and kept a
\* string under a clean key.
C31_WitnessFiltered ==
    /\ returned # <<>> /\ call.fn = "write"
    /\ call.meta = <<<<KV(<<"a", "p", "i", "K", "E", "Y">>, "str", 0),
                       KV(KeyChars.reason, "str", 0)>>>>
    /\ returned[1] = <<<<KV(KeyChars.reason, "str", 0)>>>>

\* ------------------------------------------------------------------ C32
\* A meta (null or a mapping) has no forbidden key, and no string of it is
\* a master password that a setup or unlock request carried.
C32_Clean(meta) ==
    meta = <<>>
    \/ \A i \in DOMAIN meta[1] :
          /\ ~\E hint \in FORBIDDEN_META_HINTS : Contains(Lower(meta[1][i].key), hint)
          /\ meta[1][i].kind = "str"
             => meta[1][i].val \notin Passwords \cup {in.masterPassword : in \in SetupInputs}

\* C32: after any sequence of operations, no stored audit record and no
\* event returned by GET /audit has a meta key whose lowercase form
\* contains password, secret, token, key or master, and no attempted or
\* actual master password is recorded in an event.
C32_NoSecretInAudit ==
    /\ \A i \in DOMAIN audit : C32_Clean(audit[i].meta)
    /\ (request.path = "/audit" /\ response.status = 200)
       => \A i \in DOMAIN response.body : C32_Clean(response.body[i].meta)

\* An export under a password has been recorded: the event is stored with
\* the entry count alone, the key password_protected having been dropped.
C32_Witness ==
    /\ request.path = "/backup/export" /\ response.status = 200
    /\ audit = <<[type |-> "BACKUP_EXPORT", outcome |-> "SUCCESS",
                  meta |-> <<<<KV(KeyChars.entry_count, "int", 1)>>>>]>>

\* GET /audit has returned the event of a wrong unlock attempt after a row
\* that carried a forbidden key.
C32_WitnessListed ==
    /\ request.path = "/audit" /\ response.status = 200
    /\ Len(response.body) = 2
    /\ response.body[1].meta = <<<<KV(KeyChars.reason, "NoneType", 0)>>>>
    /\ response.body[2].type = "VAULT_UNLOCK" /\ response.body[2].outcome = "FAILURE"
    /\ response.body[2].meta # <<>>

\* ------------------------------------------------------------------ C33
C33_Defaults ==
    <<[auto_lock_minutes |-> 5, clipboard_clear_seconds |-> 15,
       require_reauth_for_copy |-> TRUE]>>

C33_InRange(table) ==
    table # <<>>
    => /\ table[1].auto_lock_minutes \in 1..120
       /\ table[1].clipboard_clear_seconds \in 5..120

C33_OutOfRange(model) ==
    \/ model.autoLockMinutes \notin 1..120
    \/ model.clipboardClearSeconds \notin 5..120

\* The settings object of the bundle in the file of an import request.
C33_Imported(req) ==
    LET envelope == req.body.file.raw_bytes.value
        key == _resolve_import_key(envelope, ElsewhereKey, req.body.password).key
    IN decrypt_json(key, _b64decode(envelope.export.nonce).data,
                    _b64decode(envelope.export.ciphertext).data).value.settings

\* The settings row appears with the defaults, on setup or GET /settings;
\* an out-of-range PUT /settings from a live session is answered 422
\* VALIDATION_ERROR, from another client 401 or 403, and changes nothing; an import apply of a bundle with
\* out-of-range settings changes nothing.
C33_SettingsStep ==
    /\ (settings = <<>> /\ settings' # <<>>)
       => /\ settings' = C33_Defaults
          /\ \/ request'.path = "/vault/setup"
             \/ request'.path = "/settings" /\ request'.method = "GET"
    /\ (/\ RequestStep /\ request'.path = "/settings" /\ request'.method = "PUT"
        /\ C33_OutOfRange(request'.body))
       => /\ settings' = settings
          /\ IF IsLive(request'.session_token)
             THEN response'.status = 422 /\ response'.code = "VALIDATION_ERROR"
             ELSE response'.status \in {401, 403}
    /\ (/\ RequestStep /\ request'.path = "/backup/import/apply"
        /\ C33_OutOfRange(C33_Imported(request')))
       => settings' = settings

\* C33: in every reachable state the settings row, when present, has
\* auto_lock_minutes in [1,120] and clipboard_clear_seconds in [5,120]; it
\* is created with the defaults 5/15/true by setup or by the first GET
\* /settings; PUT /settings with an out-of-range value is rejected with 422
\* VALIDATION_ERROR and leaves the row unchanged; neither PUT nor import
\* apply can store an out-of-range value.
C33_SettingsInRange == [](C33_InRange(settings)) /\ [][C33_SettingsStep]_vars

\* A PUT /settings with autoLockMinutes 121 has been answered 422 while the
\* row holds the values of an earlier PUT at the limits.
C33_Witness ==
    /\ request.path = "/settings" /\ request.method = "PUT"
    /\ request.body.autoLockMinutes = 121
    /\ response.status = 422 /\ response.code = "VALIDATION_ERROR"
    /\ settings = <<[auto_lock_minutes |-> 120, clipboard_clear_seconds |-> 5,
                     require_reauth_for_copy |-> FALSE]>>

\* An import apply of a bundle with clipboardClearSeconds 4 has left the
\* default row in place.
C33_WitnessImport ==
    /\ request.path = "/backup/import/apply"
    /\ C33_Imported(request).clipboardClearSeconds = 4
    /\ response.status = 200
    /\ settings = C33_Defaults

\* An import apply has stored settings at the limits.
C33_WitnessImported ==
    /\ request.path = "/backup/import/apply"
    /\ response.status = 200
    /\ settings = <<[auto_lock_minutes |-> 1, clipboard_clear_seconds |-> 120,
                     require_reauth_for_copy |-> FALSE]>>

\* ------------------------------------------------------------------ C34
\* A write of entries or settings has failed at its commit.
C34_CommitFailed ==
    /\ RequestStep
    /\ request'.method \in {"POST", "PUT", "DELETE"}
    /\ \/ request'.path = "/settings"
       \/ \E id \in KnownIds \cup {0} :
             request'.path = IF id = 0 THEN "/entries" ELSE "/entries/" \o uuid_str(id)
    /\ response'.status = 500

\* The event type under which an operation is audited.
C34_EventType(req) ==
    IF req.path = "/settings" THEN "SETTINGS_UPDATE"
    ELSE IF req.method = "POST" THEN "ENTRY_CREATE"
    ELSE IF req.method = "PUT" THEN "ENTRY_UPDATE"
    ELSE "ENTRY_DELETE"

\* C34: for every API operation, not only import apply: when an error
\* occurs after the operation has partly mutated the record store (the
\* commit of an entry create, update or delete, or of a settings update,
\* fails), none of the operation's mutations persists and a FAILURE audit
\* event for that operation is committed in a separate transaction.
C34_FailureIsAudited ==
    [][C34_CommitFailed
       => /\ store' = store
          /\ \E i \in DOMAIN audit' :
                audit'[i].type = C34_EventType(request') /\ audit'[i].outcome = "FAILURE"]_vars

\* What the code does: none of the mutations persists, the response is 500
\* INTERNAL_ERROR, and no audit event is committed.
C34_FailureOutcome ==
    [][C34_CommitFailed
       => /\ store' = store
          /\ response'.code = "INTERNAL_ERROR"
          /\ audit' = <<>>]_vars

\* The commit of an update of a stored entry has failed: the entry is as it
\* was created.
C34_Witness ==
    /\ request.method = "PUT" /\ request.path = "/entries/" \o uuid_str(1)
    /\ response.status = 500
    /\ uuid_str(1) \in DOMAIN entries
    /\ entries[uuid_str(1)].ciphertext.plaintext.value.title = CreatePayload.title

\* The commit of a settings update has failed.
C34_WitnessSettings ==
    /\ request.method = "PUT" /\ request.path = "/settings"
    /\ response.status = 500
    /\ settings # <<SettingsRecord(SettingsPayload)>>

\* ------------------------------------------------------------------ C35
\* Thread th verifies the password of its unlock request and commits.
C35_Verifies(th) ==
    /\ th \in DOMAIN call /\ th \notin DOMAIN call'
    /\ request'.path = "/vault/unlock" /\ response'.verified

C35_Wrong(th) == ~verify_password(call[th].masterPassword, metadata[1].pw_verifier)

\* C35: unlock attempts are mutually exclusive, coordinated through the
\* throttle row: for any interleaving of concurrent unlock requests, each
\* verified wrong password increments failed_attempts by one (no increment
\* is lost), and once one failed attempt has set next_allowed_at, no
\* concurrent or later attempt has its password verified before that time.
C35_UnlockIsExclusive ==
    [][\A th \in Threads :
          C35_Verifies(th)
          => /\ ~is_throttled(throttle[1], now)
             /\ C35_Wrong(th)
                => throttle'[1].failed_attempts = throttle[1].failed_attempts + 1]_vars

\* What the code does: an attempt is tested against the throttle row as it
\* was when the thread read it, and a wrong password stores one more than
\* the failed_attempts read then, with a deadline counted from that moment,
\* whatever other threads have committed since.
C35_UnlockOutcome ==
    [][\A th \in Threads :
          C35_Verifies(th)
          => /\ ~is_throttled(call[th].throttle, call[th].now)
             /\ C35_Wrong(th)
                => throttle' = <<throttle_failed(call[th].throttle, call[th].now)>>]_vars

\* One thread has verified a wrong password and committed failed_attempts 1
\* with a deadline, while another that read the row before holds a wrong
\* password to verify.
C35_Witness ==
    /\ ~NoVerifier
    /\ request.path = "/vault/unlock" /\ response.status = 401 /\ response.verified
    /\ throttle = <<[failed_attempts |-> 1, next_allowed_at |-> 2]>> /\ now = 0
    /\ \E th \in DOMAIN call :
          /\ call[th].throttle = [failed_attempts |-> 0, next_allowed_at |-> NULL]
          /\ call[th].masterPassword = "wrong-password-1"

\* ------------------------------------------------------------------ C36
\* Tokens the registry has handed out.
C36_Tokens == {token_urlsafe(i) : i \in 1..issued}

\* A thread's handler runs for a request that the gate let through.
C36_Handles(thread) == thread \in DOMAIN call /\ thread \notin DOMAIN call'

\* C36: the session registry is safe under concurrent access: a lookup
\* after a session was destroyed never yields it, a session that left the
\* registry (destroyed or evicted) is never registered again, and a request
\* whose session is destroyed between the gate's lookup and the handler's
\* lookup is answered 401 without any change to entries or settings.
C36_RegistryIsSafe ==
    [][/\ \A token \in C36_Tokens :
             /\ token \notin DOMAIN sessions => token \notin DOMAIN sessions'
             /\ (/\ request'.path = "/vault/lock" /\ request'.session_token = token
                 /\ response'.status = 204 /\ RequestStep /\ call' = call)
                => token \notin DOMAIN sessions'
       /\ \A thread \in Threads :
             (C36_Handles(thread) /\ call[thread].request.session_token \notin DOMAIN sessions)
             => /\ response'.status = 401 /\ response'.code = "UNAUTHORIZED"
                /\ request' = call[thread].request
                /\ entries' = entries /\ settings' = settings /\ audit' = <<>>
       /\ (request'.path = "/vault/status" /\ RequestStep /\ call' = call
           /\ request'.session_token \in C36_Tokens \ DOMAIN sessions)
          => response'.body = "LOCKED"]_vars

\* A DELETE whose session was locked after the gate let it through has been
\* answered 401, and the entry is still stored.
C36_Witness ==
    /\ request.method = "DELETE" /\ request.path = "/entries/" \o uuid_str(1)
    /\ response.status = 401 /\ response.handled
    /\ request.session_token \in C36_Tokens
    /\ request.csrf_header = csrf_urlsafe(1)
    /\ uuid_str(1) \in DOMAIN entries
    /\ now = 0

\* A PUT /settings is in flight for a session that has meanwhile been
\* locked.
C36_WitnessInFlight ==
    \E thread \in DOMAIN call :
        /\ call[thread].request.path = "/settings"
        /\ call[thread].request.session_token \in C36_Tokens \ DOMAIN sessions
        /\ request.path = "/vault/lock" /\ response.status = 204

C37_WitnessLocked ==
    /\ request.path = "/vault/status" /\ request.session_token = token_urlsafe(1)
    /\ response.body = "LOCKED"
    /\ issued = 1 /\ DOMAIN sessions = {} /\ now = 0

\* ------------------------------------------------------------------ C38
\* The sessions other than the named one are in the registry as before.
C38_OthersKept(token) ==
    \A other \in DOMAIN sessions \ {token} :
        other \in DOMAIN sessions' /\ sessions'[other] = sessions[other]

\* C38: sessions are independent: a successful unlock adds a session
\* without invalidating any session created by an earlier unlock, and POST
\* /vault/lock destroys only the session named by the request's session
\* cookie; after that lock, every other live session still reads UNLOCKED
\* and can still read and write entries.
C38_SessionsAreIndependent ==
    [][/\ (request'.path = "/vault/unlock" /\ response'.status = 200 /\ issued' = issued + 1)
          => /\ C38_OthersKept("")
             /\ DOMAIN sessions' = DOMAIN sessions \cup {token_urlsafe(issued')}
       /\ (request'.path = "/vault/lock" /\ response'.status = 204)
          => /\ C38_OthersKept(request'.session_token)
             /\ DOMAIN sessions' = DOMAIN sessions \ {request'.session_token}
       /\ \A token \in DOMAIN sessions :
             (RequestStep /\ request'.session_token = token /\ IsLive(token))
             => /\ request'.path = "/vault/status" => response'.body = "UNLOCKED"
                /\ (request'.method = "GET" /\ request'.path = "/entries/" \o uuid_str(1)
                    /\ uuid_str(1) \in DOMAIN entries)
                   => /\ response'.status = 200
                      /\ response'.body.id = 1
                /\ (request'.method = "PUT" /\ request'.path = "/entries/" \o uuid_str(1)
                    /\ uuid_str(1) \in DOMAIN entries /\ drawn < MaxDraws)
                   => /\ response'.status = 200
                      /\ entries'[uuid_str(1)].updated_at = sqlite_datetime(utc(now))]_vars

\* With the first session locked, the second has updated the entry that
\* the first created.
C38_Witness ==
    /\ issued = 2
    /\ DOMAIN sessions = {token_urlsafe(2)}
    /\ request.method = "PUT" /\ request.path = "/entries/" \o uuid_str(1)
    /\ request.session_token = token_urlsafe(2)
    /\ response.status = 200
    /\ entries[uuid_str(1)].ciphertext.plaintext.value.title = UpdatePayload.title

\* With the second session locked, the first reads UNLOCKED.
C38_WitnessStatus ==
    /\ issued = 2
    /\ DOMAIN sessions = {token_urlsafe(1)}
    /\ request.path = "/vault/status" /\ request.session_token = token_urlsafe(1)
    /\ response.body = "UNLOCKED"

\* ------------------------------------------------------------------ C39
\* The updatedAt field of the Entry that a row's ciphertext decrypts to.
C39_Decrypted(row) == fromisoformat(row.ciphertext.plaintext.value.updatedAt)

\* C39: for every stored entry record, the record's updated_at column
\* equals the updatedAt field of the Entry its ciphertext decrypts to (the
\* same instant, the column being read as UTC as the import comparison
\* reads it), after any sequence of create, update and import apply.
C39_ColumnIsUpdatedAt ==
    \A k \in DOMAIN entries :
        timestamp(as_utc(entries[k].updated_at))
            = timestamp(as_utc(C39_Decrypted(entries[k])))

\* What the code does: the column holds the wall-clock fields of the
\* decrypted updatedAt without its offset, so the two are the same instant
\* exactly when updatedAt has no offset or the offset of UTC.
C39_ColumnOutcome ==
    \A k \in DOMAIN entries :
        /\ entries[k].updated_at = sqlite_datetime(C39_Decrypted(entries[k]))
        /\ (timestamp(as_utc(entries[k].updated_at))
               = timestamp(as_utc(C39_Decrypted(entries[k]))))
           <=> C39_Decrypted(entries[k]).offset \in {NULL, 0}

\* An import has stored an entry whose updatedAt carries the offset -05:00:
\* the column reads five hours earlier than the entry.
C39_Witness ==
    /\ request.path = "/backup/import/apply" /\ response.status = 200
    /\ \E k \in DOMAIN entries :
          /\ C39_Decrypted(entries[k]) = datetime(5000, 0 - 18000)
          /\ entries[k].updated_at = datetime(5000, NULL)

\* An entry has been created and then updated: column and entry agree.
C39_WitnessUpdated ==
    /\ request.method = "PUT" /\ response.status = 200
    /\ uuid_str(1) \in DOMAIN entries
    /\ C39_Decrypted(entries[uuid_str(1)]) = utc(now)
    /\ entries[uuid_str(1)].updated_at = datetime(now, NULL)

\* ------------------------------------------------------------------ C40
\* The request is state-changing and on a path the gate does not exempt.
C40_Gated(r) ==
    r.method \in STATE_CHANGING_METHODS /\ r.path \notin CSRF_EXEMPT_PATHS

\* The CSRF cookie and header are present, equal, and those of the session.
C40_CsrfOk(r) ==
    /\ r.csrf_cookie # "" /\ r.csrf_header # ""
    /\ r.csrf_cookie = r.csrf_header
    /\ r.csrf_header = sessions[r.session_token].csrf_token

\* The registry with the named session's last_seen set to t.
C40_Touched(token, t) == [sessions EXCEPT ![token].last_seen = t]

\* The registry without the named session when it has idled out.
C40_Evicted(token) ==
    IF token \in DOMAIN sessions /\ ~Live(token) THEN pop(sessions, token) ELSE sessions

\* C40: a state-changing request on a gated path that presents a live
\* session token but fails the CSRF check is answered 403 CSRF_INVALID, its
\* handler does not run and no record of the store changes, yet the
\* session's last_seen becomes now; a request answered 401 leaves the
\* registry as it was, except that the named session is evicted when it has
\* expired.
C40_RejectionFrame ==
    [][RequestStep =>
         LET r == request'
         IN /\ (C40_Gated(r) /\ Live(r.session_token) /\ ~C40_CsrfOk(r)) =>
                  /\ response'.status = 403 /\ response'.code = "CSRF_INVALID"
                  /\ ~response'.handled
                  /\ store' = store /\ audit' = <<>>
                  /\ created' = created /\ drawn' = drawn /\ issued' = issued
                  /\ sessions' = C40_Touched(r.session_token, now)
            /\ response'.status = 401 =>
                  /\ sessions' = C40_Evicted(r.session_token)
                  /\ store' = store /\ issued' = issued]_vars

\* A delete with a wrong CSRF header was answered 403 after the session had
\* idled for its whole timeout: the entry is still stored and the session's
\* last_seen is the time of the rejected request.
C40_Witness ==
    /\ request.method = "DELETE" /\ response.status = 403
    /\ response.code = "CSRF_INVALID"
    /\ request.session_token \in DOMAIN sessions
    /\ request.csrf_header # sessions[request.session_token].csrf_token
    /\ sessions[request.session_token].created_at < now
    /\ sessions[request.session_token].last_seen = now
    /\ entries # <<>>

\* A request naming an expired session was answered 401 and that session
\* left the registry while another one stayed.
C40_WitnessEvicted ==
    /\ C40_Gated(request) /\ response.status = 401
    /\ request.session_token = token_urlsafe(1)
    /\ token_urlsafe(1) \notin DOMAIN sessions
    /\ token_urlsafe(2) \in DOMAIN sessions

====
